---- MODULE Spec2Model ----
(***************************************************************************)
(* Model of the concurrent chat server: acceptor, per-connection workers,  *)
(* session handlers, hub indexes and the account/message store.            *)
(*                                                                         *)
(* One worker thread runs per connection.  A step of the model is one      *)
(* critical section of the code (one lock_guard scope or one atomic        *)
(* access); a reply sent on the handler's own session is folded into the   *)
(* step that decides it.  Server::broadcast and the second half of         *)
(* Server::kickUser run under clientsMutex_ and are one step each.         *)
(***************************************************************************)
EXTENDS Integers, Sequences, FiniteSets, TLC

\* ---------------------------------------------------------------- bounds
\* descriptors the acceptor hands out
MaxSock == 3
\* recv() results delivered to the workers in a run: frames and ends of
\* stream together
MaxFrames == 2

\* ------------------------------------------------------------- constants
NoSock == -1
RATE_LIMIT_MAX_MESSAGES == 10

Socks == 1..MaxSock
\* the threads of the server: the worker of each descriptor (named by the
\* descriptor), Server::acceptLoop, the caller of Server::stop and the
\* operator's thread (ServerWindow)
Acceptor == MaxSock + 1
Stopper == MaxSock + 2
Operator == MaxSock + 3
Threads == 1..Operator
NoThread == 0
\* the mutexes: Server::clientsMutex_, Server::userMapMutex_, per session
\* ClientSession::sendMutex_ and ClientSession::mutex_, Database::mutex_
Locks ==
  {<<"clients", 0>>, <<"users", 0>>, <<"store", 0>>}
  \cup {<<k, s>> : k \in {"send", "state"}, s \in Socks}
\* accounts present in the persisted store when the server starts
Names == {"root", "alice", "bob"}
\* names a frame may carry: the accounts, the empty string, an unknown name
NameInputs == Names \cup {"", "carol"}
Passwords == {"pw12", "bad1"}
Contents == {"", "hi"}

VARIABLES
  running,      \* Server::running_
  clients,      \* keys of Server::clients_ (socket index)
  userToSocket, \* Server::userToSocket_ : name -> fd, NoSock when absent
  authenticated,\* ClientSession::authenticated_ per fd
  username,     \* ClientSession::username_ per fd
  active,       \* ClientSession::active_ per fd
  rateCount,    \* ClientSession::rateLimitMessageCount_ per fd
  users,        \* Database: users table, name -> row
  messages,     \* Database: messages table (append only)
  dbOpen,       \* Database::initialized_
  pc,           \* position of the worker of each fd
  frame,        \* the frame the worker is handling
  lu,           \* handler local: std::string username / sender
  lfd,          \* handler local: int socketFd of sendToUser / kickUser
  trace,        \* effects of the handler invocation in progress, in order
  nframes,      \* recv() results (frames, ends of stream) consumed so far
  stopPc,       \* position of the thread calling Server::stop
  wire,         \* the frames the peer of each fd writes to its connection
  buffer,       \* ClientSession::buffer_ per fd, as a window of those bytes
  handled,      \* the messages handed to handleMessage per fd, in order
  now,          \* std::chrono::steady_clock, in ticks
  windowStart,  \* ClientSession::rateLimitWindowStart_ per fd
  passed,       \* the instants at which checkRateLimit returned true, per fd
  acceptPc,     \* position of the thread running Server::acceptLoop
  acceptFd,     \* acceptLoop local: int clientSocket
  outbound,     \* what send() has put on the connection of each fd, in order
  holder,       \* the thread that holds each mutex, NoThread when free
  path          \* the mutex operations each thread has still to do

vars == <<running, clients, userToSocket, authenticated, username, active,
          rateCount, users, messages, dbOpen, pc, frame, lu, lfd, trace,
          nframes, stopPc, wire, buffer, handled, now, windowStart, passed,
          acceptPc, acceptFd, outbound, holder, path>>

hubVars == <<clients, userToSocket>>
sessVars == <<authenticated, username, active>>
dbVars == <<users, messages, dbOpen>>
frameVars == <<wire, buffer, handled>>
clockVars == <<now, windowStart, passed>>
acceptVars == <<acceptPc, acceptFd>>
lockVars == <<holder, path>>
stepVars == <<acceptVars, outbound, lockVars>>

\* ------------------------------------------------------------ Protocol
NoFrame == [type |-> "NONE", receiver |-> "", content |-> "", cred |-> <<>>]

Message(t, snd, rcv, c) ==
  [type |-> t, sender |-> snd, receiver |-> rcv, content |-> c, extra |-> {}]

createOkResponse(c) == Message("OK", "", "", c)
\* variant: the reason is sent in a frame of type OK
createErrorResponseAsOk(c) == Message("OK", "", "", c)
createErrorResponse(c) == Message("ERROR", "", "", c)
createGlobalMessage(snd, c) == Message("MSG_GLOBAL", snd, "", c)
createPrivateMessage(snd, rcv, c) == Message("MSG_PRIVATE", snd, rcv, c)
createUserStatusMessage(u, online) ==
  Message("USER_STATUS", u, "", IF online THEN "online" ELSE "offline")
\* extra carries the JSON array of names, kept as the set of its elements
createOnlineListMessage(us) ==
  [Message("ONLINE_LIST", "", "", "") EXCEPT !.extra = us]

\* ------------------------------------------------------------ Database
\* std::hash<std::string> returns a size_t: strings of every length are
\* mapped onto 2^64 digests, so distinct strings with one digest exist.
\* SameDigest names such a pair of salted passwords; every other string
\* stands for its own digest.
SameDigest == <<"pw12", "twin">>
hasher(x) ==
  IF x = SameDigest[2] \o "chat_salt_2024"
  THEN SameDigest[1] \o "chat_salt_2024" ELSE x
hashPassword(p) == hasher(p \o "chat_salt_2024")

userExists(u) == dbOpen /\ u \in DOMAIN users
isBanned(u) == dbOpen /\ u \in DOMAIN users /\ users[u].is_banned
isMuted(u) == dbOpen /\ u \in DOMAIN users /\ users[u].is_muted
getUserRole(u) == IF dbOpen /\ u \in DOMAIN users THEN users[u].role ELSE -1
isAdmin(u) == getUserRole(u) = 1
authenticateUser(u, p) ==
  dbOpen /\ u \in DOMAIN users /\ users[u].password = hashPassword(p)

\* UPDATE ... WHERE username = ? : succeeds iff a row changed
dbUpdateOk(u) == dbOpen /\ u \in DOMAIN users
banUser(u) == [users EXCEPT ![u].is_banned = TRUE]
unbanUser(u) == [users EXCEPT ![u].is_banned = FALSE]
muteUser(u) == [users EXCEPT ![u].is_muted = TRUE]
unmuteUser(u) == [users EXCEPT ![u].is_muted = FALSE]
setUserRole(u, r) == [users EXCEPT ![u].role = r]
\* SELECT username FROM users WHERE is_banned = 1 (is_muted = 1)
getBannedUsers ==
  IF dbOpen THEN {u \in DOMAIN users : users[u].is_banned} ELSE {}
getMutedUsers ==
  IF dbOpen THEN {u \in DOMAIN users : users[u].is_muted} ELSE {}
\* SELECT username, role, is_banned, is_muted FROM users
getAllUsers ==
  IF dbOpen
  THEN {[username |-> u, role |-> users[u].role,
         isBanned |-> users[u].is_banned, isMuted |-> users[u].is_muted] :
          u \in DOMAIN users}
  ELSE {}
\* variant: the password is stored as given
NewUserPlain(p) ==
  [password |-> p, role |-> 0, is_banned |-> FALSE, is_muted |-> FALSE]
\* INSERT INTO users (username, password, display_name): role, is_banned
\* and is_muted take the column defaults
NewUser(p) ==
  [password |-> hashPassword(p), role |-> 0,
   is_banned |-> FALSE, is_muted |-> FALSE]
\* Database::registerUser, one critical section: <<success, users table>>
registerUser(u, p) ==
  IF ~dbOpen \/ u \in DOMAIN users THEN <<FALSE, users>>
  ELSE <<TRUE, [x \in DOMAIN users \cup {u} |->
                  IF x = u THEN NewUser(p) ELSE users[x]]>>
\* the UPDATE of Database::changePassword
setPassword(u, p) == [users EXCEPT ![u].password = hashPassword(p)]
\* Database::createTables on the table found on disk, whose row with the
\* least id is that of `first`: with no admin, that row is made admin
createTables(table, first) ==
  IF DOMAIN table # {} /\ \A u \in DOMAIN table : table[u].role # 1
  THEN [table EXCEPT ![first].role = 1]
  ELSE table
logMessage(snd, rcv, c, kind) ==
  IF dbOpen
  THEN Append(messages, [sender |-> snd, receiver |-> rcv,
                         content |-> c, kind |-> kind])
  ELSE messages

\* ----------------------------------------------------- effects (trace)
SendEv(to, m) ==
  [ev |-> "send", to |-> to, type |-> m.type, sender |-> m.sender,
   receiver |-> m.receiver, content |-> m.content, extra |-> m.extra]
LogEv(snd, rcv, c, kind) ==
  [ev |-> "log", to |-> 0, type |-> kind, sender |-> snd,
   receiver |-> rcv, content |-> c, extra |-> {}]
\* session `to` marked inactive and its authentication cleared; type tells
\* whether it was still active
InactiveEv(to, wasActive) ==
  [ev |-> "inactive", to |-> to,
   type |-> IF wasActive THEN "active" ELSE "inactive", sender |-> "",
   receiver |-> "", content |-> "", extra |-> {}]
\* the frame was taken up on session `to`, then logged in as u ("" if not
\* logged in); type tells whether u was muted at that moment
RecvEv(to, u, muted) ==
  [ev |-> "recv", to |-> to, type |-> IF muted THEN "muted" ELSE "",
   sender |-> u, receiver |-> "", content |-> "", extra |-> {}]
\* setAuthenticated(u) on session `to`
AuthEv(to, u) ==
  [ev |-> "auth", to |-> to, type |-> "", sender |-> u,
   receiver |-> "", content |-> "", extra |-> {}]
\* registerUser(u, to)
RegEv(to, u) ==
  [ev |-> "register", to |-> to, type |-> "", sender |-> u,
   receiver |-> "", content |-> "", extra |-> {}]
\* a LOGIN as u on session `to` reached step "auth" (setAuthenticated) or
\* "register" (registerUser) while the observing handler runs
LoginEv(to, u, step) ==
  [ev |-> "login", to |-> to, type |-> step, sender |-> u,
   receiver |-> "", content |-> "", extra |-> {}]

\* ClientSession::sendMessage on session t: the frame is written iff the
\* session is active; the result is the sequence of frames put on the wire.
sendMessage(t, m) == IF active[t] THEN <<SendEv(t, m)>> ELSE <<>>

\* Server::broadcast: every session of the socket index that is
\* authenticated and not excluded, in ascending fd order (std::map).
broadcast(m, excludeSocket) ==
  LET all == [i \in 1..MaxSock |-> i]
      hit(i) == i \in clients /\ i # excludeSocket /\ authenticated[i]
                /\ sendMessage(i, m) # <<>>
      fds == SelectSeq(all, hit)
  IN [k \in 1..Len(fds) |-> SendEv(fds[k], m)]

isUserOnline(u) == u \in DOMAIN userToSocket /\ userToSocket[u] # NoSock
lookupUser(u) == IF u \in DOMAIN userToSocket THEN userToSocket[u] ELSE NoSock
getOnlineUsers == {u \in DOMAIN userToSocket : userToSocket[u] # NoSock}

\* the framing buffer holds bytes lo+1 .. hi of what the peer has written
EmptyBuffer == [lo |-> 0, hi |-> 0]

\* ---------------------------------------------------------------- Init
\* the persisted users table the server opens: root is the admin
StoredUsers(muted, banned) ==
  [u \in Names |->
     [password |-> hashPassword("pw12"),
      role |-> IF u = "root" THEN 1 ELSE 0,
      is_banned |-> u \in banned, is_muted |-> u \in muted]]

\* the handler locals and the bookkeeping, nothing in progress
Idle ==
  /\ frame = [s \in Socks |-> NoFrame]
  /\ lu = [s \in Socks |-> ""]
  /\ lfd = [s \in Socks |-> NoSock]
  /\ trace = [s \in Socks |-> <<>>]
  /\ nframes = 0
  /\ stopPc = "idle"
  /\ messages = <<>>
  /\ dbOpen = TRUE
  /\ running = TRUE
  /\ wire = [s \in Socks |-> <<>>]
  /\ buffer = [s \in Socks |-> EmptyBuffer]
  /\ handled = [s \in Socks |-> <<>>]
  /\ now = 0
  /\ windowStart = [s \in Socks |-> 0]
  /\ passed = [s \in Socks |-> <<>>]
  /\ acceptPc = "accept"
  /\ acceptFd = NoSock
  /\ outbound = [s \in Socks |-> <<>>]
  /\ holder = [l \in Locks |-> NoThread]
  /\ path = [t \in Threads |-> <<>>]

\* Server::start has returned: no connection yet
Init ==
  /\ Idle
  /\ clients = {}
  /\ userToSocket = [u \in NameInputs |-> NoSock]
  /\ authenticated = [s \in Socks |-> FALSE]
  /\ username = [s \in Socks |-> ""]
  /\ active = [s \in Socks |-> FALSE]
  /\ rateCount = [s \in Socks |-> 0]
  /\ users = StoredUsers({}, {})
  /\ pc = [s \in Socks |-> "none"]

\* A running server between frames: every descriptor is connected and its
\* worker waits in recv(); who[fd] is the name the session logged in under
\* ("" for a session that has not logged in).  Such a state is reached from
\* Init by accepting the connections and handling one LOGIN after another.
QuietOn(who, table, rate) ==
  /\ Idle
  /\ clients = Socks
  /\ userToSocket = [u \in NameInputs |->
                       IF \E s \in Socks : who[s] = u /\ u # ""
                       THEN CHOOSE s \in Socks : who[s] = u ELSE NoSock]
  /\ authenticated = [s \in Socks |-> who[s] # ""]
  /\ username = who
  /\ active = [s \in Socks |-> TRUE]
  /\ rateCount = rate
  /\ users = table
  /\ pc = [s \in Socks |-> "recv"]

\* the same on the persisted table in which root is the admin
QuietAt(who, muted, banned, rate) ==
  QuietOn(who, StoredUsers(muted, banned), rate)

\* the same with every session at the start of its rate window
Quiet(who, muted, banned) ==
  QuietAt(who, muted, banned, [s \in Socks |-> 0])

\* root on descriptor 1, then second and third, the rest not logged in
Seating(second, third) ==
  [s \in Socks |-> CASE s = 1 -> "root" [] s = 2 -> second
                      [] s = 3 -> third [] OTHER -> ""]

\* -------------------------------------------------------------- frames
LoginFrames ==
  {[type |-> "LOGIN", receiver |-> "", content |-> "", cred |-> c] :
     c \in {<<>>} \cup ((Names \cup {"carol"}) \X Passwords)}
LogoutFrames ==
  {[type |-> "LOGOUT", receiver |-> "", content |-> "", cred |-> <<>>]}
ChatFrames ==
  {[type |-> "MSG_GLOBAL", receiver |-> "", content |-> c, cred |-> <<>>] :
     c \in Contents}
  \cup
  {[type |-> "MSG_PRIVATE", receiver |-> r, content |-> c, cred |-> <<>>] :
     r \in NameInputs, c \in Contents}
AdminTypes == {"KICK_USER", "BAN_USER", "UNBAN_USER", "MUTE_USER",
               "UNMUTE_USER", "PROMOTE_USER", "DEMOTE_USER"}
\* the admin-only queries, which carry no target
ListTypes == {"GET_ALL_USERS", "GET_BANNED_LIST", "GET_MUTED_LIST"}
AdminFrames ==
  {[type |-> t, receiver |-> r, content |-> "", cred |-> <<>>] :
     t \in AdminTypes, r \in NameInputs}
Frames == LoginFrames \cup LogoutFrames \cup ChatFrames \cup AdminFrames

RateLimitedText == "Rate limit exceeded. Please wait before sending more messages."
MutedText == "You are muted and cannot send messages"

\* ------------------------------------------------------- step helpers
Goto(s, l) == pc' = [pc EXCEPT ![s] = l]
Emit(s, evs) == trace' = [trace EXCEPT ![s] = @ \o evs]
\* the handler replies on its own session and returns to processData
Reply(s, m) == Emit(s, sendMessage(s, m)) /\ Goto(s, "next")
ReplyError(s, c) == Reply(s, createErrorResponse(c))

\* ------------------------------------------------------------ acceptor
maxClients == MaxSock

\* Server::acceptLoop: accept() returns the lowest free descriptor; the
\* session is installed and its worker started.
Accept ==
  /\ running
  /\ Cardinality(clients) < maxClients
  /\ \E fd \in Socks \ clients :
       /\ \A g \in Socks \ clients : fd <= g
       /\ pc[fd] = "none"
       /\ clients' = clients \cup {fd}
       /\ authenticated' = [authenticated EXCEPT ![fd] = FALSE]
       /\ username' = [username EXCEPT ![fd] = ""]
       /\ active' = [active EXCEPT ![fd] = TRUE]
       /\ rateCount' = [rateCount EXCEPT ![fd] = 0]
       /\ windowStart' = [windowStart EXCEPT ![fd] = now]
       /\ Goto(fd, "recv")
  /\ UNCHANGED <<running, userToSocket, dbVars, frame, lu, lfd, trace,
                 nframes, stopPc, frameVars, now, passed, stepVars>>

\* ------------------------------------------------------------ dispatch
\* ClientSession::handleMessage and the first tests of the selected handler:
\* those on the session's own flag and on the frame's own fields.
HandleMessage(s, f) ==
  /\ frame' = [frame EXCEPT ![s] = f]
  /\ lu' = [lu EXCEPT ![s] = ""]
  /\ lfd' = [lfd EXCEPT ![s] = NoSock]
  /\ LET taken == <<RecvEv(s, username[s], isMuted(username[s]))>>
         first(l) == /\ trace' = [trace EXCEPT ![s] = taken]
                     /\ Goto(s, l)
         err(c) == /\ trace' = [trace EXCEPT ![s] = taken \o
                                  sendMessage(s, createErrorResponse(c))]
                   /\ Goto(s, "next")
     IN CASE f.type = "LOGIN" ->
               IF authenticated[s] THEN err("Already logged in")
               ELSE IF f.cred = <<>> THEN err("Invalid request format")
               ELSE first("login_online")
          [] f.type = "LOGOUT" ->
               IF ~authenticated[s] THEN err("Not logged in")
               ELSE first("name")
          [] f.type = "MSG_GLOBAL" ->
               IF ~authenticated[s]
               THEN err("Must be logged in to send messages")
               ELSE first("name")
          [] f.type = "MSG_PRIVATE" ->
               IF ~authenticated[s]
               THEN err("Must be logged in to send messages")
               ELSE first("name")
          [] f.type \in AdminTypes \cup ListTypes ->
               IF ~authenticated[s] THEN err("Must be logged in")
               ELSE first("name")
          [] f.type = "PING" -> first("ping")
          [] f.type = "REGISTER" ->
               IF f.cred = <<>> THEN err("Invalid request format")
               ELSE IF f.cred[1] = "" \/ f.cred[2] = ""
               THEN err("Username and password are required")
               ELSE IF Len(f.cred[1]) < 3 \/ Len(f.cred[1]) > 20
               THEN err("Username must be 3-20 characters")
               ELSE IF Len(f.cred[2]) < 4
               THEN err("Password must be at least 4 characters")
               ELSE first("reg_do")
          [] f.type = "CHANGE_PASSWORD" ->
               IF ~authenticated[s]
               THEN err("Must be logged in to change password")
               ELSE IF f.cred = <<>> THEN err("Invalid request format")
               ELSE IF Len(f.cred[2]) < 4
               THEN err("New password must be at least 4 characters")
               ELSE first("name")
          [] OTHER -> err("Unknown command")
  /\ UNCHANGED <<running, hubVars, sessVars, rateCount, dbVars, stopPc,
                 clockVars, stepVars>>

\* a frame taken from a recv() result, counted against MaxFrames
Dispatch(s, f) ==
  /\ nframes < MaxFrames
  /\ nframes' = nframes + 1
  /\ HandleMessage(s, f)
  /\ UNCHANGED frameVars

\* Server::handleClient: recv() returns bytes holding a complete frame of F
Recv(s, F) == pc[s] = "recv" /\ \E f \in F : Dispatch(s, f)

\* ClientSession::processData: another complete frame is already buffered
Buffered(s, F) == pc[s] = "next" /\ \E f \in F : Dispatch(s, f)

\* --------------------------------------------------------------- LOGIN
LoginOnline(s) ==
  /\ pc[s] = "login_online"
  /\ IF isUserOnline(frame[s].cred[1])
     THEN ReplyError(s, "User already logged in from another location")
     ELSE Goto(s, "login_banned") /\ UNCHANGED trace
  /\ UNCHANGED <<running, hubVars, sessVars, rateCount, dbVars, frame, lu,
                 lfd, nframes, stopPc, frameVars, clockVars, stepVars>>

\* variant: the banned flag is not consulted
LoginBannedSkipped(s) ==
  /\ pc[s] = "login_banned"
  /\ Goto(s, "login_auth") /\ UNCHANGED trace
  /\ UNCHANGED <<running, hubVars, sessVars, rateCount, dbVars, frame, lu,
                 lfd, nframes, stopPc, frameVars, clockVars, stepVars>>

LoginBanned(s) ==
  /\ pc[s] = "login_banned"
  /\ IF isBanned(frame[s].cred[1])
     THEN ReplyError(s, "Your account has been banned")
     ELSE Goto(s, "login_auth") /\ UNCHANGED trace
  /\ UNCHANGED <<running, hubVars, sessVars, rateCount, dbVars, frame, lu,
                 lfd, nframes, stopPc, frameVars, clockVars, stepVars>>

\* variant: wrong credentials end the handler without a reply
LoginAuthSilent(s) ==
  /\ pc[s] = "login_auth"
  /\ IF authenticateUser(frame[s].cred[1], frame[s].cred[2])
     THEN Goto(s, "login_set") /\ UNCHANGED trace
     ELSE Goto(s, "next") /\ UNCHANGED trace
  /\ UNCHANGED <<running, hubVars, sessVars, rateCount, dbVars, frame, lu,
                 lfd, nframes, stopPc, frameVars, clockVars, stepVars>>

LoginAuth(s) ==
  /\ pc[s] = "login_auth"
  /\ IF authenticateUser(frame[s].cred[1], frame[s].cred[2])
     THEN Goto(s, "login_set") /\ UNCHANGED trace
     ELSE ReplyError(s, "Invalid username or password")
  /\ UNCHANGED <<running, hubVars, sessVars, rateCount, dbVars, frame, lu,
                 lfd, nframes, stopPc, frameVars, clockVars, stepVars>>

\* A KICK_USER or BAN_USER of u that has looked its target up notes, in its
\* own trace, each LOGIN accepted as u or on the session it found, until it
\* has replied: bookkeeping only, no handler reads it.
Observes(k, fd, u) ==
  /\ pc[k] \in {"n_send", "kick1", "kick2", "k_done", "b_done"}
  /\ frame[k].receiver = u \/ lfd[k] = fd
Observe(fd, u, own) ==
  trace' = [k \in Socks |->
              IF k = fd THEN Append(trace[k], own)
              ELSE IF Observes(k, fd, u)
              THEN Append(trace[k], LoginEv(fd, u, own.ev)) ELSE trace[k]]

\* ClientSession::setAuthenticated
LoginSet(s) ==
  /\ pc[s] = "login_set"
  /\ username' = [username EXCEPT ![s] = frame[s].cred[1]]
  /\ authenticated' = [authenticated EXCEPT ![s] = TRUE]
  /\ Goto(s, "login_reg")
  /\ Observe(s, frame[s].cred[1], AuthEv(s, frame[s].cred[1]))
  /\ UNCHANGED <<running, hubVars, active, rateCount, dbVars, frame, lu, lfd,
                 nframes, stopPc, frameVars, clockVars, stepVars>>

\* Server::registerUser
LoginRegister(s) ==
  /\ pc[s] = "login_reg"
  /\ userToSocket' = [userToSocket EXCEPT ![frame[s].cred[1]] = s]
  /\ Goto(s, "login_ok")
  /\ Observe(s, frame[s].cred[1], RegEv(s, frame[s].cred[1]))
  /\ UNCHANGED <<running, clients, sessVars, rateCount, dbVars, frame, lu,
                 lfd, nframes, stopPc, frameVars, clockVars, stepVars>>

LoginOk(s) ==
  /\ pc[s] = "login_ok"
  /\ Emit(s, sendMessage(s, createOkResponse("Login successful")))
  /\ Goto(s, "login_bcast")
  /\ UNCHANGED <<running, hubVars, sessVars, rateCount, dbVars, frame, lu,
                 lfd, nframes, stopPc, frameVars, clockVars, stepVars>>

\* variant: the caller is left out of its own online notice
LoginBroadcastExcludesSelf(s) ==
  /\ pc[s] = "login_bcast"
  /\ Emit(s, broadcast(createUserStatusMessage(frame[s].cred[1], TRUE), s))
  /\ Goto(s, "login_list")
  /\ UNCHANGED <<running, hubVars, sessVars, rateCount, dbVars, frame, lu,
                 lfd, nframes, stopPc, frameVars, clockVars, stepVars>>

LoginBroadcast(s) ==
  /\ pc[s] = "login_bcast"
  /\ Emit(s, broadcast(createUserStatusMessage(frame[s].cred[1], TRUE),
                       NoSock))
  /\ Goto(s, "login_list")
  /\ UNCHANGED <<running, hubVars, sessVars, rateCount, dbVars, frame, lu,
                 lfd, nframes, stopPc, frameVars, clockVars, stepVars>>

LoginList(s) ==
  /\ pc[s] = "login_list"
  /\ Reply(s, createOnlineListMessage(getOnlineUsers))
  /\ UNCHANGED <<running, hubVars, sessVars, rateCount, dbVars, frame, lu,
                 lfd, nframes, stopPc, frameVars, clockVars, stepVars>>

\* -------------------------------------------------------------- LOGOUT
\* ClientSession::getUsername as the handler's first read after the
\* authenticated_ test (std::string username = getUsername(); isAdmin())
AfterName(t) ==
  CASE t = "LOGOUT" -> "logout_bcast"
    [] t = "CHANGE_PASSWORD" -> "cp_auth"
    [] t = "MSG_GLOBAL" -> "g_muted"
    [] t = "MSG_PRIVATE" -> "p_muted"
    [] OTHER -> "a_role"

GetUsername(s) ==
  /\ pc[s] = "name"
  /\ lu' = [lu EXCEPT ![s] = username[s]]
  /\ Goto(s, AfterName(frame[s].type))
  /\ UNCHANGED <<running, hubVars, sessVars, rateCount, dbVars, frame, lfd,
                 trace, nframes, stopPc, frameVars, clockVars, stepVars>>

LogoutBroadcast(s) ==
  /\ pc[s] = "logout_bcast"
  /\ Emit(s, broadcast(createUserStatusMessage(lu[s], FALSE), s))
  /\ Goto(s, "logout_unreg")
  /\ UNCHANGED <<running, hubVars, sessVars, rateCount, dbVars, frame, lu,
                 lfd, nframes, stopPc, frameVars, clockVars, stepVars>>

\* Server::unregisterUser
LogoutUnregister(s) ==
  /\ pc[s] = "logout_unreg"
  /\ userToSocket' = [userToSocket EXCEPT ![lu[s]] = NoSock]
  /\ Goto(s, "logout_clear")
  /\ UNCHANGED <<running, clients, sessVars, rateCount, dbVars, frame, lu,
                 lfd, trace, nframes, stopPc, frameVars, clockVars, stepVars>>

\* ClientSession::clearAuthentication, then the OK reply
LogoutClear(s) ==
  /\ pc[s] = "logout_clear"
  /\ username' = [username EXCEPT ![s] = ""]
  /\ authenticated' = [authenticated EXCEPT ![s] = FALSE]
  /\ Reply(s, createOkResponse("Logged out successfully"))
  /\ UNCHANGED <<running, hubVars, active, rateCount, dbVars, frame, lu, lfd,
                 nframes, stopPc, frameVars, clockVars, stepVars>>

\* ------------------------------------------- REGISTER, CHANGE_PASSWORD
\* variant: no test for an existing row, the INSERT replaces it
RegisterWriteReplaces(s) ==
  /\ pc[s] = "reg_do"
  /\ users' = [x \in DOMAIN users \cup {frame[s].cred[1]} |->
                 IF x = frame[s].cred[1] THEN NewUser(frame[s].cred[2])
                 ELSE users[x]]
  /\ Reply(s, createOkResponse("Registration successful"))
  /\ UNCHANGED <<running, hubVars, sessVars, rateCount, messages, dbOpen,
                 frame, lu, lfd, nframes, stopPc, frameVars, clockVars,
                 stepVars>>

\* Database::registerUser and the reply of handleRegister
RegisterWrite(s) ==
  /\ pc[s] = "reg_do"
  /\ LET r == registerUser(frame[s].cred[1], frame[s].cred[2]) IN
     /\ users' = r[2]
     /\ IF r[1] THEN Reply(s, createOkResponse("Registration successful"))
        ELSE ReplyError(s, "Username already exists")
  /\ UNCHANGED <<running, hubVars, sessVars, rateCount, messages, dbOpen,
                 frame, lu, lfd, nframes, stopPc, frameVars, clockVars,
                 stepVars>>

\* Database::changePassword, first half: authenticateUser(old password)
ChangeAuth(s) ==
  /\ pc[s] = "cp_auth"
  /\ IF authenticateUser(lu[s], frame[s].cred[1])
     THEN Goto(s, "cp_write") /\ UNCHANGED trace
     ELSE ReplyError(s, "Incorrect old password")
  /\ UNCHANGED <<running, hubVars, sessVars, rateCount, dbVars, frame, lu,
                 lfd, nframes, stopPc, frameVars, clockVars, stepVars>>

\* Database::changePassword, second half: the UPDATE under its own lock
ChangeWrite(s) ==
  /\ pc[s] = "cp_write"
  /\ IF dbUpdateOk(lu[s])
     THEN /\ users' = setPassword(lu[s], frame[s].cred[2])
          /\ Reply(s, createOkResponse("Password changed successfully"))
     ELSE UNCHANGED users /\ ReplyError(s, "Incorrect old password")
  /\ UNCHANGED <<running, hubVars, sessVars, rateCount, messages, dbOpen,
                 frame, lu, lfd, nframes, stopPc, frameVars, clockVars,
                 stepVars>>

\* ---------------------------------------------------------------- PING
\* variant: the heartbeat goes through the chat rate limit
PongRateLimited(s) ==
  /\ pc[s] = "ping"
  /\ rateCount' = [rateCount EXCEPT ![s] = @ + 1]
  /\ IF rateCount[s] + 1 > RATE_LIMIT_MAX_MESSAGES
     THEN ReplyError(s, RateLimitedText)
     ELSE Reply(s, Message("PONG", "", "", ""))
  /\ UNCHANGED <<running, hubVars, sessVars, dbVars, frame, lu, lfd, nframes,
                 stopPc, frameVars, clockVars, stepVars>>

\* handleMessage, case PING: sendMessage(Message(PONG))
Pong(s) ==
  /\ pc[s] = "ping"
  /\ Reply(s, Message("PONG", "", "", ""))
  /\ UNCHANGED <<running, hubVars, sessVars, rateCount, dbVars, frame, lu,
                 lfd, nframes, stopPc, frameVars, clockVars, stepVars>>

\* ------------------------------------------------- worker loop and exit
\* what the worker does once its read loop is left: getUsername()
LeaveLoop(s) ==
  /\ lu' = [lu EXCEPT ![s] = username[s]]
  /\ Goto(s, IF username[s] # "" THEN "x_bcast" ELSE "x_remove")
  /\ frame' = [frame EXCEPT ![s] = NoFrame]
  /\ lfd' = [lfd EXCEPT ![s] = NoSock]
  /\ trace' = [trace EXCEPT ![s] = <<>>]

\* no further complete frame: back to the while condition of handleClient
LoopCheck(s) ==
  /\ pc[s] = "next"
  /\ IF running /\ active[s]
     THEN /\ Goto(s, "recv")
          /\ frame' = [frame EXCEPT ![s] = NoFrame]
          /\ lu' = [lu EXCEPT ![s] = ""]
          /\ lfd' = [lfd EXCEPT ![s] = NoSock]
          /\ trace' = [trace EXCEPT ![s] = <<>>]
     ELSE LeaveLoop(s)
  /\ UNCHANGED <<running, hubVars, sessVars, rateCount, dbVars, nframes,
                 stopPc, frameVars, clockVars, stepVars>>

\* recv() returns 0 or an error: the peer closed the connection
Eof(s) ==
  /\ pc[s] = "recv"
  /\ nframes < MaxFrames
  /\ nframes' = nframes + 1
  /\ LeaveLoop(s)
  /\ UNCHANGED <<running, hubVars, sessVars, rateCount, dbVars, stopPc,
                 frameVars, clockVars, stepVars>>

ExitBroadcast(s) ==
  /\ pc[s] = "x_bcast"
  /\ Emit(s, broadcast(createUserStatusMessage(lu[s], FALSE), s))
  /\ Goto(s, "x_unreg")
  /\ UNCHANGED <<running, hubVars, sessVars, rateCount, dbVars, frame, lu,
                 lfd, nframes, stopPc, frameVars, clockVars, stepVars>>

ExitUnregister(s) ==
  /\ pc[s] = "x_unreg"
  /\ userToSocket' = [userToSocket EXCEPT ![lu[s]] = NoSock]
  /\ Goto(s, "x_remove")
  /\ UNCHANGED <<running, clients, sessVars, rateCount, dbVars, frame, lu,
                 lfd, trace, nframes, stopPc, frameVars, clockVars, stepVars>>

\* Server::removeClient; erasing the entry destroys the session
RemoveClient(s) ==
  /\ pc[s] = "x_remove"
  /\ clients' = clients \ {s}
  /\ authenticated' = [authenticated EXCEPT ![s] = FALSE]
  /\ username' = [username EXCEPT ![s] = ""]
  /\ active' = [active EXCEPT ![s] = FALSE]
  /\ rateCount' = [rateCount EXCEPT ![s] = 0]
  /\ Goto(s, "none")
  /\ lu' = [lu EXCEPT ![s] = ""]
  /\ trace' = [trace EXCEPT ![s] = <<>>]
  /\ UNCHANGED <<running, userToSocket, dbVars, frame, lfd, nframes, stopPc,
                 frameVars, clockVars, stepVars>>

\* ---------------------------------------------------------------- stop
StopBegin ==
  /\ stopPc = "idle"
  /\ running
  /\ running' = FALSE
  /\ stopPc' = "clear"
  /\ UNCHANGED <<hubVars, sessVars, rateCount, dbVars, pc, frame, lu, lfd,
                 trace, nframes, frameVars, clockVars, stepVars>>

StopClear ==
  /\ stopPc = "clear"
  /\ active' = [s \in Socks |-> IF s \in clients THEN FALSE ELSE active[s]]
  /\ clients' = {}
  /\ stopPc' = "close"
  /\ UNCHANGED <<running, userToSocket, authenticated, username, rateCount,
                 dbVars, pc, frame, lu, lfd, trace, nframes, frameVars,
                 clockVars, stepVars>>

StopClose ==
  /\ stopPc = "close"
  /\ dbOpen' = FALSE
  /\ stopPc' = "done"
  /\ UNCHANGED <<running, hubVars, sessVars, rateCount, users, messages, pc,
                 frame, lu, lfd, trace, nframes, frameVars, clockVars,
                 stepVars>>

\* ---------------------------------------------------------------- chat
\* ClientSession::checkRateLimit; elapsed is whether the steady clock shows
\* the window over.  Result: <<allowed, new counter>>.
checkRateLimit(s, elapsed) ==
  IF elapsed THEN <<TRUE, 1>>
  ELSE <<rateCount[s] + 1 <= RATE_LIMIT_MAX_MESSAGES, rateCount[s] + 1>>

\* isMuted, checkRateLimit and the tests on the frame's own fields, with the
\* steady clock's verdict on the window given
GlobalTests(s, elapsed) ==
  /\ pc[s] = "g_muted"
  /\ IF isMuted(lu[s])
     THEN ReplyError(s, MutedText) /\ UNCHANGED rateCount
     ELSE LET r == checkRateLimit(s, elapsed) IN
          /\ rateCount' = [rateCount EXCEPT ![s] = r[2]]
          /\ IF ~r[1] THEN ReplyError(s, RateLimitedText)
             ELSE IF frame[s].content = ""
             THEN Goto(s, "next") /\ UNCHANGED trace
             ELSE Goto(s, "g_log") /\ UNCHANGED trace
  /\ UNCHANGED <<running, hubVars, sessVars, dbVars, frame, lu, lfd, nframes,
                 stopPc, frameVars, stepVars>>

\* the clock left open: the window may or may not be over
GlobalChecks(s) ==
  \E elapsed \in BOOLEAN : GlobalTests(s, elapsed) /\ UNCHANGED clockVars

GlobalLog(s) ==
  /\ pc[s] = "g_log"
  /\ messages' = logMessage(lu[s], "", frame[s].content, "global")
  /\ Emit(s, IF dbOpen
             THEN <<LogEv(lu[s], "", frame[s].content, "global")>>
             ELSE <<>>)
  /\ Goto(s, "g_bcast")
  /\ UNCHANGED <<running, hubVars, sessVars, rateCount, users, dbOpen, frame,
                 lu, lfd, nframes, stopPc, frameVars, clockVars, stepVars>>

GlobalBroadcast(s) ==
  /\ pc[s] = "g_bcast"
  /\ Emit(s, broadcast(createGlobalMessage(lu[s], frame[s].content), NoSock))
  /\ Goto(s, "next")
  /\ UNCHANGED <<running, hubVars, sessVars, rateCount, dbVars, frame, lu,
                 lfd, nframes, stopPc, frameVars, clockVars, stepVars>>

PrivateTests(s, elapsed) ==
  /\ pc[s] = "p_muted"
  /\ IF isMuted(lu[s])
     THEN ReplyError(s, MutedText) /\ UNCHANGED rateCount
     ELSE LET r == checkRateLimit(s, elapsed) IN
          /\ rateCount' = [rateCount EXCEPT ![s] = r[2]]
          /\ IF ~r[1] THEN ReplyError(s, RateLimitedText)
             ELSE IF frame[s].receiver = ""
             THEN ReplyError(s, "Receiver not specified")
             ELSE IF frame[s].content = ""
             THEN Goto(s, "next") /\ UNCHANGED trace
             ELSE IF frame[s].receiver = lu[s]
             THEN ReplyError(s, "Cannot send message to yourself")
             ELSE Goto(s, "p_log") /\ UNCHANGED trace
  /\ UNCHANGED <<running, hubVars, sessVars, dbVars, frame, lu, lfd, nframes,
                 stopPc, frameVars, stepVars>>

PrivateChecks(s) ==
  \E elapsed \in BOOLEAN : PrivateTests(s, elapsed) /\ UNCHANGED clockVars

PrivateLog(s) ==
  /\ pc[s] = "p_log"
  /\ messages' = logMessage(lu[s], frame[s].receiver, frame[s].content,
                            "private")
  /\ Emit(s, IF dbOpen
             THEN <<LogEv(lu[s], frame[s].receiver, frame[s].content,
                          "private")>>
             ELSE <<>>)
  /\ Goto(s, "p_lookup")
  /\ UNCHANGED <<running, hubVars, sessVars, rateCount, users, dbOpen, frame,
                 lu, lfd, nframes, stopPc, frameVars, clockVars, stepVars>>

\* Server::sendToUser, first block: the lookup under userMapMutex_
PrivateLookup(s) ==
  /\ pc[s] = "p_lookup"
  /\ lfd' = [lfd EXCEPT ![s] = lookupUser(frame[s].receiver)]
  /\ IF lookupUser(frame[s].receiver) < 0
     THEN ReplyError(s, "User not online: " \o frame[s].receiver)
     ELSE Goto(s, "p_send") /\ UNCHANGED trace
  /\ UNCHANGED <<running, hubVars, sessVars, rateCount, dbVars, frame, lu,
                 nframes, stopPc, frameVars, clockVars, stepVars>>

\* Server::sendToUser, second block, then the sender's copy or the error
PrivateSend(s) ==
  /\ pc[s] = "p_send"
  /\ LET m == createPrivateMessage(lu[s], frame[s].receiver, frame[s].content)
         sent == IF lfd[s] \in clients THEN sendMessage(lfd[s], m) ELSE <<>>
     IN Emit(s, sent \o
                (IF sent # <<>> THEN sendMessage(s, m)
                 ELSE sendMessage(s, createErrorResponse(
                        "User not online: " \o frame[s].receiver))))
  /\ Goto(s, "next")
  /\ UNCHANGED <<running, hubVars, sessVars, rateCount, dbVars, frame, lu,
                 lfd, nframes, stopPc, frameVars, clockVars, stepVars>>

\* ------------------------------------------------------ admin commands
SelfText(t) ==
  CASE t = "KICK_USER" -> "Cannot kick yourself"
    [] t = "BAN_USER" -> "Cannot ban yourself"
    [] t = "MUTE_USER" -> "Cannot mute yourself"
    [] t = "DEMOTE_USER" -> "Cannot demote yourself"
    [] OTHER -> ""

AfterRole(t) ==
  CASE t = "KICK_USER" -> "k_online"
    [] t = "BAN_USER" -> "b_target"
    [] t = "UNBAN_USER" -> "ub_target"
    [] t = "MUTE_USER" -> "m_target"
    [] t = "UNMUTE_USER" -> "um_target"
    [] t = "PROMOTE_USER" -> "pr_target"
    [] t \in ListTypes -> "l_reply"
    [] OTHER -> "de_target"

\* an error reply, or on to the next step, nothing else touched
CheckThen(s, err, l) ==
  /\ IF err # "" THEN ReplyError(s, err) ELSE Goto(s, l) /\ UNCHANGED trace
  /\ UNCHANGED <<running, hubVars, sessVars, rateCount, dbVars, frame, lu,
                 lfd, nframes, stopPc, frameVars, clockVars, stepVars>>

\* the tests that follow isAdmin(): the empty-target test and the self
\* test of the moderation commands, none in the queries
TargetText(s) ==
  IF frame[s].type \in ListTypes THEN ""
  ELSE IF frame[s].receiver = "" THEN "Target user not specified"
  ELSE IF SelfText(frame[s].type) # "" /\ frame[s].receiver = username[s]
  THEN SelfText(frame[s].type)
  ELSE ""

\* variant: the stored role of the caller is not consulted
AdminRoleUnchecked(s) ==
  /\ pc[s] = "a_role"
  /\ CheckThen(s, TargetText(s), AfterRole(frame[s].type))

\* isAdmin() of the caller, the empty-target test and the self test
AdminRole(s) ==
  /\ pc[s] = "a_role"
  /\ CheckThen(s,
       IF ~isAdmin(lu[s]) THEN "Admin privileges required"
       ELSE TargetText(s),
       AfterRole(frame[s].type))

\* handleGetAllUsers, handleGetBannedList, handleGetMutedList: the reply
\* is a frame of the request's type with the list in extra
ListReply(s) ==
  /\ pc[s] = "l_reply"
  /\ Reply(s, [Message(frame[s].type, "", "", "") EXCEPT !.extra =
        CASE frame[s].type = "GET_BANNED_LIST" -> getBannedUsers
          [] frame[s].type = "GET_MUTED_LIST" -> getMutedUsers
          [] OTHER -> {[r EXCEPT !.isOnline = isUserOnline(r.username)] :
                         r \in {[isOnline |-> FALSE] @@ x : x \in getAllUsers}}])
  /\ UNCHANGED <<running, hubVars, sessVars, rateCount, dbVars, frame, lu,
                 lfd, nframes, stopPc, frameVars, clockVars, stepVars>>

\* one UPDATE of the users table, then either the next step or a reply
DbWrite(s, ok, newUsers, l, okText, failText) ==
  /\ users' = IF ok THEN newUsers ELSE users
  /\ IF ok
     THEN IF l = "next" THEN Reply(s, createOkResponse(okText))
          ELSE Goto(s, l) /\ UNCHANGED trace
     ELSE ReplyError(s, failText)
  /\ UNCHANGED <<running, hubVars, sessVars, rateCount, messages, dbOpen,
                 frame, lu, lfd, nframes, stopPc, frameVars, clockVars,
                 stepVars>>

KickOnline(s) ==
  /\ pc[s] = "k_online"
  /\ CheckThen(s, IF ~isUserOnline(frame[s].receiver)
                  THEN "User not online: " \o frame[s].receiver ELSE "",
               "n_lookup")

BanTarget(s) ==
  /\ pc[s] = "b_target"
  /\ CheckThen(s, IF isAdmin(frame[s].receiver) THEN "Cannot ban an admin"
                  ELSE IF ~userExists(frame[s].receiver)
                  THEN "User not found: " \o frame[s].receiver ELSE "",
               "b_ban")

BanWrite(s) ==
  /\ pc[s] = "b_ban"
  /\ DbWrite(s, dbUpdateOk(frame[s].receiver), banUser(frame[s].receiver),
             "b_online", "", "Failed to ban user")

BanOnline(s) ==
  /\ pc[s] = "b_online"
  /\ IF isUserOnline(frame[s].receiver)
     THEN Goto(s, "n_lookup") /\ UNCHANGED trace
     ELSE Reply(s, createOkResponse("User banned: " \o frame[s].receiver))
  /\ UNCHANGED <<running, hubVars, sessVars, rateCount, dbVars, frame, lu,
                 lfd, nframes, stopPc, frameVars, clockVars, stepVars>>

UnbanTarget(s) ==
  /\ pc[s] = "ub_target"
  /\ CheckThen(s, IF ~userExists(frame[s].receiver)
                  THEN "User not found: " \o frame[s].receiver ELSE "",
               "ub_do")

UnbanWrite(s) ==
  /\ pc[s] = "ub_do"
  /\ DbWrite(s, dbUpdateOk(frame[s].receiver), unbanUser(frame[s].receiver),
             "next", "User unbanned: " \o frame[s].receiver,
             "Failed to unban user")

MuteTarget(s) ==
  /\ pc[s] = "m_target"
  /\ CheckThen(s, IF isAdmin(frame[s].receiver) THEN "Cannot mute an admin"
                  ELSE IF ~userExists(frame[s].receiver)
                  THEN "User not found: " \o frame[s].receiver ELSE "",
               "m_do")

MuteWrite(s) ==
  /\ pc[s] = "m_do"
  /\ DbWrite(s, dbUpdateOk(frame[s].receiver), muteUser(frame[s].receiver),
             "m_online", "", "Failed to mute user")

UnmuteTarget(s) ==
  /\ pc[s] = "um_target"
  /\ CheckThen(s, IF ~userExists(frame[s].receiver)
                  THEN "User not found: " \o frame[s].receiver ELSE "",
               "um_do")

UnmuteWrite(s) ==
  /\ pc[s] = "um_do"
  /\ DbWrite(s, dbUpdateOk(frame[s].receiver), unmuteUser(frame[s].receiver),
             "m_online", "", "Failed to unmute user")

MuteReplyText(s) ==
  IF frame[s].type = "MUTE_USER" THEN "User muted: " \o frame[s].receiver
  ELSE "User unmuted: " \o frame[s].receiver

\* handleMuteUser / handleUnmuteUser: notify the target if it is online
MuteOnline(s) ==
  /\ pc[s] = "m_online"
  /\ IF isUserOnline(frame[s].receiver)
     THEN Goto(s, "n_lookup") /\ UNCHANGED trace
     ELSE Reply(s, createOkResponse(MuteReplyText(s)))
  /\ UNCHANGED <<running, hubVars, sessVars, rateCount, dbVars, frame, lu,
                 lfd, nframes, stopPc, frameVars, clockVars, stepVars>>

PromoteTarget(s) ==
  /\ pc[s] = "pr_target"
  /\ CheckThen(s, IF ~userExists(frame[s].receiver)
                  THEN "User not found: " \o frame[s].receiver
                  ELSE IF isAdmin(frame[s].receiver)
                  THEN "User is already an admin" ELSE "",
               "pr_do")

PromoteWrite(s) ==
  /\ pc[s] = "pr_do"
  /\ DbWrite(s, dbUpdateOk(frame[s].receiver),
             setUserRole(frame[s].receiver, 1), "next",
             "User promoted to admin: " \o frame[s].receiver,
             "Failed to promote user")

DemoteTarget(s) ==
  /\ pc[s] = "de_target"
  /\ CheckThen(s, IF ~userExists(frame[s].receiver)
                  THEN "User not found: " \o frame[s].receiver
                  ELSE IF ~isAdmin(frame[s].receiver)
                  THEN "User is not an admin" ELSE "",
               "de_do")

DemoteWrite(s) ==
  /\ pc[s] = "de_do"
  /\ DbWrite(s, dbUpdateOk(frame[s].receiver),
             setUserRole(frame[s].receiver, 0), "next",
             "User demoted from admin: " \o frame[s].receiver,
             "Failed to demote user")

\* the frame an admin command sends to its target
NoticeMessage(s) ==
  CASE frame[s].type = "KICK_USER" ->
         Message("KICKED", "", "", "You have been kicked by " \o lu[s])
    [] frame[s].type = "BAN_USER" ->
         Message("BANNED", "", "", "You have been banned by " \o lu[s])
    [] frame[s].type = "MUTE_USER" ->
         Message("MUTED", "", "", "You have been muted by " \o lu[s])
    [] OTHER ->
         Message("UNMUTED", "", "", "You have been unmuted by " \o lu[s])

\* Server::sendToUser(target, notice), first block
NoticeLookup(s) ==
  /\ pc[s] = "n_lookup"
  /\ lfd' = [lfd EXCEPT ![s] = lookupUser(frame[s].receiver)]
  /\ IF lookupUser(frame[s].receiver) >= 0
     THEN Goto(s, "n_send") /\ UNCHANGED trace
     ELSE IF frame[s].type \in {"KICK_USER", "BAN_USER"}
     THEN Goto(s, "kick1") /\ UNCHANGED trace
     ELSE Reply(s, createOkResponse(MuteReplyText(s)))
  /\ UNCHANGED <<running, hubVars, sessVars, rateCount, dbVars, frame, lu,
                 nframes, stopPc, frameVars, clockVars, stepVars>>

\* Server::sendToUser(target, notice), second block
NoticeSend(s) ==
  /\ pc[s] = "n_send"
  /\ LET sent == IF lfd[s] \in clients
                 THEN sendMessage(lfd[s], NoticeMessage(s)) ELSE <<>>
     IN IF frame[s].type \in {"KICK_USER", "BAN_USER"}
        THEN Emit(s, sent) /\ Goto(s, "kick1")
        ELSE /\ Emit(s, sent \o
                        sendMessage(s, createOkResponse(MuteReplyText(s))))
             /\ Goto(s, "next")
  /\ UNCHANGED <<running, hubVars, sessVars, rateCount, dbVars, frame, lu,
                 lfd, nframes, stopPc, frameVars, clockVars, stepVars>>

AfterKick(t) == IF t = "KICK_USER" THEN "k_done" ELSE "b_done"

\* Server::kickUser, first block: find and erase under userMapMutex_
KickErase(s) ==
  /\ pc[s] = "kick1"
  /\ lfd' = [lfd EXCEPT ![s] = lookupUser(frame[s].receiver)]
  /\ userToSocket' = [userToSocket EXCEPT ![frame[s].receiver] = NoSock]
  /\ Goto(s, IF lookupUser(frame[s].receiver) >= 0 THEN "kick2"
             ELSE AfterKick(frame[s].type))
  /\ UNCHANGED <<running, clients, sessVars, rateCount, dbVars, frame, lu,
                 trace, nframes, stopPc, frameVars, clockVars, stepVars>>

\* variant: the second block marks the session inactive but leaves its
\* authentication as it is
KickSessionKeepsAuth(s) ==
  /\ pc[s] = "kick2"
  /\ LET t == lfd[s] IN
     IF t \in clients
     THEN /\ active' = [active EXCEPT ![t] = FALSE]
          /\ Emit(s, <<InactiveEv(t, active[t])>>)
          /\ UNCHANGED <<username, authenticated>>
     ELSE UNCHANGED <<sessVars, trace>>
  /\ Goto(s, AfterKick(frame[s].type))
  /\ UNCHANGED <<running, hubVars, rateCount, dbVars, frame, lu, lfd, nframes,
                 stopPc, frameVars, clockVars, stepVars>>

\* Server::kickUser, second block: setInactive and clearAuthentication
KickSession(s) ==
  /\ pc[s] = "kick2"
  /\ LET t == lfd[s] IN
     IF t \in clients
     THEN /\ active' = [active EXCEPT ![t] = FALSE]
          /\ username' = [username EXCEPT ![t] = ""]
          /\ authenticated' = [authenticated EXCEPT ![t] = FALSE]
          /\ Emit(s, <<InactiveEv(t, active[t])>>)
     ELSE UNCHANGED <<sessVars, trace>>
  /\ Goto(s, AfterKick(frame[s].type))
  /\ UNCHANGED <<running, hubVars, rateCount, dbVars, frame, lu, lfd, nframes,
                 stopPc, frameVars, clockVars, stepVars>>

\* handleKickUser: the OK reply, then the offline broadcast
KickDone(s) ==
  /\ pc[s] = "k_done"
  /\ Emit(s, sendMessage(s, createOkResponse(
                              "User kicked: " \o frame[s].receiver))
             \o broadcast(createUserStatusMessage(frame[s].receiver, FALSE),
                          NoSock))
  /\ Goto(s, "next")
  /\ UNCHANGED <<running, hubVars, sessVars, rateCount, dbVars, frame, lu,
                 lfd, nframes, stopPc, frameVars, clockVars, stepVars>>

\* handleBanUser: the offline broadcast, then the OK reply
BanDone(s) ==
  /\ pc[s] = "b_done"
  /\ Emit(s, broadcast(createUserStatusMessage(frame[s].receiver, FALSE),
                       NoSock)
             \o sendMessage(s, createOkResponse(
                                 "User banned: " \o frame[s].receiver)))
  /\ Goto(s, "next")
  /\ UNCHANGED <<running, hubVars, sessVars, rateCount, dbVars, frame, lu,
                 lfd, nframes, stopPc, frameVars, clockVars, stepVars>>

\* ------------------------------------------------------- codec, framing
MAX_MESSAGE_SIZE == 1048576
BUFFER_SIZE == 4096

\* enum class MessageType
TypeCode ==
  [REGISTER |-> 1, LOGIN |-> 2, LOGOUT |-> 3, CHANGE_PASSWORD |-> 4,
   MSG_GLOBAL |-> 10, MSG_PRIVATE |-> 11, ONLINE_LIST |-> 20,
   USER_STATUS |-> 21, USER_INFO |-> 22, KICK_USER |-> 30, BAN_USER |-> 31,
   UNBAN_USER |-> 32, MUTE_USER |-> 33, UNMUTE_USER |-> 34,
   PROMOTE_USER |-> 35, DEMOTE_USER |-> 36, GET_ALL_USERS |-> 37,
   GET_BANNED_LIST |-> 38, GET_MUTED_LIST |-> 39, KICKED |-> 40,
   BANNED |-> 41, MUTED |-> 42, UNMUTED |-> 43, OK |-> 100, ERROR |-> 101,
   PING |-> 200, PONG |-> 201]

\* static_cast<MessageType>(int), named as messageTypeToString names it
typeOf(code) ==
  IF \E t \in DOMAIN TypeCode : TypeCode[t] = code
  THEN CHOOSE t \in DOMAIN TypeCode : TypeCode[t] = code
  ELSE "UNKNOWN"

\* struct Message with all six fields
WireMessage(t, snd, rcv, c, ts, x) ==
  [type |-> t, sender |-> snd, receiver |-> rcv, content |-> c,
   timestamp |-> ts, extra |-> x]

\* getCurrentTimestamp() at the moment of a call
ClockText == "12:00:00"

\* a payload: the JSON text, kept as the object it denotes; ok is false for
\* bytes that json::parse rejects
Json(code, snd, rcv, c, ts, x) ==
  [ok |-> TRUE, type |-> code, sender |-> snd, receiver |-> rcv,
   content |-> c, timestamp |-> ts, extra |-> x]
NotJson == [Json(0, "", "", "", "", "") EXCEPT !.ok = FALSE]

\* j.dump(): the keys and punctuation of the six members take 74 bytes
dumpLen(j) ==
  74 + (IF j.type < 10 THEN 1 ELSE IF j.type < 100 THEN 2 ELSE 3)
     + Len(j.sender) + Len(j.receiver) + Len(j.content)
     + Len(j.timestamp) + Len(j.extra)

\* what a peer writes: the length prefix len, then n bytes of payload
WireFrame(len, j, n) == [len |-> len, json |-> j, n |-> n]

\* Protocol::serialize
serialize(m) ==
  LET j == Json(TypeCode[m.type], m.sender, m.receiver, m.content,
                IF m.timestamp = "" THEN ClockText ELSE m.timestamp,
                m.extra)
  IN WireFrame(dumpLen(j), j, dumpLen(j))

\* variant: the extra member is not read back
deserializeDropsExtra(j) ==
  IF j.ok
  THEN WireMessage(typeOf(j.type), j.sender, j.receiver, j.content,
                   j.timestamp, "")
  ELSE WireMessage("ERROR", "", "", "Parse error", "", "")

\* Protocol::deserialize of a payload
deserialize(j) ==
  IF j.ok
  THEN WireMessage(typeOf(j.type), j.sender, j.receiver, j.content,
                   j.timestamp, j.extra)
  ELSE WireMessage("ERROR", "", "", "Parse error", "", "")

\* the bytes one frame takes on the wire
FrameBytes(f) == 4 + f.n

\* the bytes of the frames before frame i of w
RECURSIVE Offset(_, _)
Offset(w, i) ==
  IF i <= 1 THEN 0 ELSE Offset(w, i - 1) + FrameBytes(w[i - 1])

Total(w) == Offset(w, Len(w) + 1)

\* the frame of w that byte p (counted from 1) belongs to
FrameAt(w, p) ==
  CHOOSE i \in 1..Len(w) : Offset(w, i) < p /\ p <= Offset(w, i + 1)

\* byte p of the stream w: a byte of a big-endian length prefix, or a byte
\* of payload text (its value matters only if it is read as a length)
ByteAt(w, p) ==
  LET i == FrameAt(w, p)
      k == p - Offset(w, i)
  IN IF k = 1 THEN w[i].len \div 16777216
     ELSE IF k = 2 THEN (w[i].len \div 65536) % 256
     ELSE IF k = 3 THEN (w[i].len \div 256) % 256
     ELSE IF k = 4 THEN w[i].len % 256
     ELSE 123

\* buffer_.size()
Size(s) == buffer[s].hi - buffer[s].lo

\* the length prefix at the head of the buffer (at least 4 bytes present)
headLength(s) ==
  LET b(k) == ByteAt(wire[s], buffer[s].lo + k)
  IN b(1) * 16777216 + b(2) * 65536 + b(3) * 256 + b(4)

\* MessageBuffer::hasCompleteMessage
hasCompleteMessage(s) ==
  /\ Size(s) >= 4
  /\ headLength(s) <= MAX_MESSAGE_SIZE
  /\ Size(s) >= 4 + headLength(s)

\* the payload held in bytes from+1 .. from+len of w: the text parses iff
\* these are exactly the payload bytes of one frame
payloadAt(w, from, len) ==
  IF \E i \in 1..Len(w) : Offset(w, i) + 4 = from /\ w[i].n = len
  THEN (LET i == CHOOSE i \in 1..Len(w) :
                   Offset(w, i) + 4 = from /\ w[i].n = len
        IN w[i].json)
  ELSE NotJson

\* variant: the payload is drained but the four bytes of its prefix stay
extractMessageKeepsPrefix(s) ==
  [msg |-> deserialize(payloadAt(wire[s], buffer[s].lo + 4, headLength(s))),
   buf |-> [lo |-> buffer[s].lo + headLength(s), hi |-> buffer[s].hi]]

\* MessageBuffer::extractMessage: the message returned and the buffer left
extractMessage(s) ==
  IF Size(s) < 4
  THEN [msg |-> WireMessage("ERROR", "", "", "", "", ""), buf |-> buffer[s]]
  ELSE IF headLength(s) > MAX_MESSAGE_SIZE
  THEN [msg |-> WireMessage("ERROR", "", "", "Message too large or invalid",
                            "", ""),
        buf |-> [lo |-> buffer[s].hi, hi |-> buffer[s].hi]]
  ELSE IF Size(s) < 4 + headLength(s)
  THEN [msg |-> WireMessage("ERROR", "", "", "", "", ""), buf |-> buffer[s]]
  ELSE [msg |-> deserialize(payloadAt(wire[s], buffer[s].lo + 4,
                                      headLength(s))),
        buf |-> [lo |-> buffer[s].lo + 4 + headLength(s),
                 hi |-> buffer[s].hi]]

\* the handler's view of a decoded message
AsFrame(m) ==
  [type |-> m.type, receiver |-> m.receiver, content |-> m.content,
   cred |-> <<>>]

\* ---------------------------------------------------- peers and streams
\* frames in a stream
MaxStream == 2
\* how many bytes into a frame a recv() may end short of a full buffer
MaxCut == 5

\* a heartbeat padded with JSON whitespace to n bytes of payload
Padded(n) == WireFrame(n, Json(TypeCode.PING, "", "", "", "", ""), n)

\* what a peer may write: an encoded heartbeat, a frame of exactly the
\* largest size, one byte that is no JSON text, and a frame one byte too
\* large
FrameInputs ==
  {serialize(WireMessage("PING", "", "", "", "09:30:00", "")),
   Padded(MAX_MESSAGE_SIZE), WireFrame(1, NotJson, 1),
   Padded(MAX_MESSAGE_SIZE + 1)}

RECURSIVE StreamsOf(_)
StreamsOf(n) ==
  IF n = 0 THEN {<<>>}
  ELSE LET shorter == StreamsOf(n - 1)
       IN shorter \cup {Append(w, f) : w \in shorter, f \in FrameInputs}

Streams == StreamsOf(MaxStream) \ {<<>>}

\* the peer of connection s writes a stream of W; the bytes are in flight
\* until recv() returns them
PeerWrite(s, W) ==
  /\ pc[s] = "recv"
  /\ wire[s] = <<>>
  /\ \E w \in W : wire' = [wire EXCEPT ![s] = w]
  /\ UNCHANGED <<running, hubVars, sessVars, rateCount, dbVars, pc, frame, lu,
                 lfd, trace, nframes, stopPc, buffer, handled, clockVars,
                 stepVars>>

\* the stream positions at which a recv() starting after byte hi may end:
\* a full buffer (or all there is), the first bytes of a frame, its last
\* byte and the one before
ReadEnds(w, hi) ==
  LET most == IF Total(w) - hi < BUFFER_SIZE THEN Total(w)
              ELSE hi + BUFFER_SIZE
      near == UNION {{Offset(w, i) + d : d \in 1..MaxCut}
                     \cup {Offset(w, i + 1) - 1, Offset(w, i + 1)} :
                     i \in 1..Len(w)}
  IN {most} \cup {p \in near : hi < p /\ p < most}

\* Server::handleClient: recv() returns bytes, processData appends them
\* (the stream bounds the run, the reads are not counted)
RecvData(s) ==
  /\ pc[s] = "recv"
  /\ buffer[s].hi < Total(wire[s])
  /\ \E p \in ReadEnds(wire[s], buffer[s].hi) :
       buffer' = [buffer EXCEPT ![s].hi = p]
  /\ Goto(s, "next")
  /\ UNCHANGED <<running, hubVars, sessVars, rateCount, dbVars, frame, lu,
                 lfd, trace, nframes, stopPc, wire, handled, clockVars,
                 stepVars>>

\* ClientSession::processData, one turn of the loop: extractMessage and
\* handleMessage
ExtractNext(s) ==
  /\ pc[s] = "next"
  /\ hasCompleteMessage(s)
  /\ LET r == extractMessage(s) IN
     /\ buffer' = [buffer EXCEPT ![s] = r.buf]
     /\ handled' = [handled EXCEPT ![s] = Append(@, r.msg)]
     /\ HandleMessage(s, AsFrame(r.msg))
  /\ UNCHANGED <<nframes, wire>>

\* ClientSession::processData returns: no complete message is buffered
Drained(s) ==
  /\ ~hasCompleteMessage(s)
  /\ LoopCheck(s)

\* ---------------------------------------------------------- rate clock
\* ticks of the steady clock in one second
TicksPerSecond == 2
\* the last tick of a run
MaxTime == 3
\* chat frames a session receives in a run
MaxChat == 11
RATE_LIMIT_WINDOW_SECONDS == 1

\* duration_cast<seconds>(now - rateLimitWindowStart_) >= the window length
windowElapsed(s) ==
  (now - windowStart[s]) \div TicksPerSecond >= RATE_LIMIT_WINDOW_SECONDS

\* what one call of checkRateLimit at the present instant does to the window
\* start, and the record of the calls that returned true
Stamp(s) ==
  /\ now' = now
  /\ IF isMuted(lu[s])
     THEN UNCHANGED <<windowStart, passed>>
     ELSE /\ windowStart' = IF windowElapsed(s)
                            THEN [windowStart EXCEPT ![s] = now]
                            ELSE windowStart
          /\ passed' = IF checkRateLimit(s, windowElapsed(s))[1]
                       THEN [passed EXCEPT ![s] = Append(@, now)]
                       ELSE passed

GlobalChecksAt(s) == GlobalTests(s, windowElapsed(s)) /\ Stamp(s)

PrivateChecksAt(s) == PrivateTests(s, windowElapsed(s)) /\ Stamp(s)

\* the steady clock advances
Tick ==
  /\ now < MaxTime
  /\ now' = now + 1
  /\ UNCHANGED <<running, hubVars, sessVars, rateCount, dbVars, pc, frame, lu,
                 lfd, trace, nframes, stopPc, frameVars, windowStart, passed,
                 stepVars>>

\* a chat frame taken from a recv() result, counted against MaxChat
RecvChat(s, F) ==
  /\ pc[s] \in {"recv", "next"}
  /\ nframes < MaxChat
  /\ nframes' = nframes + 1
  /\ \E f \in F : HandleMessage(s, f)
  /\ UNCHANGED frameVars

\* ------------------------------------------------------ specifications
Loop(s, F) == Recv(s, F) \/ Buffered(s, F) \/ LoopCheck(s)

Leave(s) ==
  \/ Eof(s) \/ ExitBroadcast(s) \/ ExitUnregister(s) \/ RemoveClient(s)

Login(s) ==
  \/ LoginOnline(s) \/ LoginBanned(s) \/ LoginAuth(s) \/ LoginSet(s)
  \/ LoginRegister(s) \/ LoginOk(s) \/ LoginBroadcast(s) \/ LoginList(s)

Logout(s) == LogoutBroadcast(s) \/ LogoutUnregister(s) \/ LogoutClear(s)

Kick(s) ==
  \/ KickOnline(s) \/ NoticeLookup(s) \/ NoticeSend(s) \/ KickErase(s)
  \/ KickSession(s) \/ KickDone(s)

Ban(s) == BanTarget(s) \/ BanWrite(s) \/ BanOnline(s) \/ BanDone(s)

\* Connections, LOGIN, LOGOUT, disconnect and stop() from server start.
SessionFrames ==
  {f \in LoginFrames : f.cred \in {<<>>, <<"alice", "pw12">>,
                                   <<"alice", "bad1">>}}
  \cup LogoutFrames

Next ==
  \/ Accept
  \/ \E s \in Socks :
       \/ Loop(s, SessionFrames) \/ Leave(s) \/ Login(s)
       \/ GetUsername(s) \/ Logout(s)
  \/ StopBegin \/ StopClear \/ StopClose

Spec == Init /\ [][Next]_vars

Admin(t, r) == [type |-> t, receiver |-> r, content |-> "", cred |-> <<>>]
LoginAs(u, p) ==
  [type |-> "LOGIN", receiver |-> "", content |-> "", cred |-> <<u, p>>]

\* Moderation of alice by root while sessions log in, log out and disconnect.
ModFrames ==
  {Admin("KICK_USER", "alice"), Admin("BAN_USER", "alice"),
   Admin("UNBAN_USER", "alice"),
   LoginAs("alice", "pw12"), LoginAs("alice", "bad1")}
  \cup {f \in LoginFrames : f.cred = <<>>} \cup LogoutFrames

InitMod ==
  \E second \in {"", "alice"}, third \in {"", "bob"} :
    Quiet(Seating(second, third), {}, {})

NextMod ==
  \E s \in Socks :
    \/ Loop(s, ModFrames) \/ Leave(s) \/ Login(s)
    \/ GetUsername(s) \/ Logout(s)
    \/ AdminRole(s) \/ Kick(s) \/ Ban(s) \/ UnbanTarget(s) \/ UnbanWrite(s)

SpecMod == InitMod /\ [][NextMod]_vars

\* The role and the flags of alice under root's commands.
RoleFrames ==
  {Admin(t, "alice") : t \in AdminTypes \ {"KICK_USER"}}

InitRoles == Quiet(Seating("alice", ""), {}, {})

NextRoles ==
  \E s \in Socks :
    \/ Loop(s, RoleFrames) \/ Leave(s) \/ GetUsername(s) \/ AdminRole(s)
    \/ Ban(s) \/ UnbanTarget(s) \/ UnbanWrite(s)
    \/ MuteTarget(s) \/ MuteWrite(s) \/ UnmuteTarget(s) \/ UnmuteWrite(s)
    \/ MuteOnline(s) \/ NoticeLookup(s) \/ NoticeSend(s)
    \/ KickErase(s) \/ KickSession(s)
    \/ PromoteTarget(s) \/ PromoteWrite(s)
    \/ DemoteTarget(s) \/ DemoteWrite(s)

SpecRoles == InitRoles /\ [][NextRoles]_vars

\* Chat frames while root kicks or mutes alice.
ChatInputs ==
  {f \in ChatFrames : f.receiver \in {"", "bob"}}
  \cup {Admin("KICK_USER", "alice"), Admin("MUTE_USER", "alice")}

InitChat ==
  \E third \in {"", "bob"}, muted \in {{}, {"alice"}} :
    Quiet(Seating("alice", third), muted, {})

NextChat ==
  \E s \in Socks :
    \/ Loop(s, ChatInputs) \/ Leave(s) \/ GetUsername(s)
    \/ GlobalChecks(s) \/ GlobalLog(s) \/ GlobalBroadcast(s)
    \/ PrivateChecks(s) \/ PrivateLog(s) \/ PrivateLookup(s)
    \/ PrivateSend(s)
    \/ AdminRole(s) \/ Kick(s) \/ MuteTarget(s) \/ MuteWrite(s)
    \/ MuteOnline(s)

SpecChat == InitChat /\ [][NextChat]_vars

\* Heartbeats next to chat frames, on sessions at or below their rate limit,
\* while root kicks alice.
PingFrames ==
  {[type |-> "PING", receiver |-> "", content |-> "", cred |-> <<>>],
   [type |-> "MSG_GLOBAL", receiver |-> "", content |-> "hi", cred |-> <<>>],
   Admin("KICK_USER", "alice")}

InitPing ==
  \E muted \in {{}, {"alice"}},
     rate \in [Socks -> {0, RATE_LIMIT_MAX_MESSAGES}] :
    QuietAt(Seating("alice", ""), muted, {}, rate)

NextPing ==
  \E s \in Socks :
    \/ Loop(s, PingFrames) \/ Leave(s) \/ GetUsername(s) \/ Pong(s)
    \/ GlobalChecks(s) \/ GlobalLog(s) \/ GlobalBroadcast(s)
    \/ AdminRole(s) \/ Kick(s)

SpecPing == InitPing /\ [][NextPing]_vars

\* One connection whose peer writes a stream of frames that recv() returns
\* in pieces.
InitFrame == Quiet(Seating("", ""), {}, {})

NextFrame ==
  \E s \in {MaxSock} :
    \/ PeerWrite(s, Streams) \/ RecvData(s) \/ ExtractNext(s) \/ Drained(s)
    \/ Pong(s)

SpecFrame == InitFrame /\ [][NextFrame]_vars

\* the network delivers what was written and the worker thread keeps running

\* One connection whose peer encodes one message with Protocol::serialize.
CodecMessages ==
  {WireMessage(t, snd, rcv, c, ts, x) :
     t \in {"PING", "MSG_GLOBAL", "OK"}, snd \in {"", "alice"},
     rcv \in {"", "bob"}, c \in Contents, ts \in {"", "09:30:00"},
     x \in {"", "[]"}}

NextCodec ==
  \E s \in {MaxSock} :
    \/ PeerWrite(s, {<<serialize(m)>> : m \in CodecMessages})
    \/ RecvData(s) \/ ExtractNext(s) \/ Drained(s) \/ Pong(s)

SpecCodec == InitFrame /\ [][NextCodec]_vars

\* alice sends chat frames while the steady clock runs.
RateFrames ==
  {[type |-> "MSG_GLOBAL", receiver |-> "", content |-> "hi", cred |-> <<>>],
   [type |-> "MSG_PRIVATE", receiver |-> "", content |-> "hi", cred |-> <<>>]}

InitRate == Quiet(Seating("alice", ""), {}, {})

NextRate ==
  \/ Tick
  \/ \E s \in {2} :
       \/ RecvChat(s, RateFrames) \/ LoopCheck(s) \/ GetUsername(s)
       \/ GlobalChecksAt(s) \/ GlobalLog(s) \/ GlobalBroadcast(s)
       \/ PrivateChecksAt(s)

SpecRate == InitRate /\ [][NextRate]_vars

\* ------------------------------------------------------- account store
\* frames a run of the account-store specification delivers
MaxOps == 4
\* the users table of a first run
EmptyUsers == [u \in {} |-> NewUser("")]

\* a table written by a run that never promoted anyone; root's row was
\* inserted first
MembersOnly ==
  [u \in Names |-> [StoredUsers({}, {})[u] EXCEPT !.role = 0]]
\* passwords a caller may try
PasswordInputs == {"pw12", "bad1", "new1", SameDigest[2]}

Register(u, p) ==
  [type |-> "REGISTER", receiver |-> "", content |-> "", cred |-> <<u, p>>]
ChangePassword(old, new) ==
  [type |-> "CHANGE_PASSWORD", receiver |-> "", content |-> "",
   cred |-> <<old, new>>]

\* Registration, login and password change on a first run (empty store)
\* and on a store that holds root, alice and bob, alice banned or online.
StoreFrames ==
  {Register("carol", "pw12"), Register("root", "bad1"),
   Register("carol", ""),
   LoginAs("carol", "pw12"), LoginAs("carol", "bad1"),
   LoginAs("carol", SameDigest[2]), LoginAs("alice", "bad1"),
   ChangePassword("pw12", "new1"), ChangePassword("bad1", "new1")}

InitStore ==
  \/ QuietOn([s \in Socks |-> ""], createTables(EmptyUsers, ""),
             [s \in Socks |-> 0])
  \/ QuietOn(Seating("alice", ""), createTables(MembersOnly, "root"),
             [s \in Socks |-> 0])
  \/ QuietOn(Seating("", ""),
             createTables(StoredUsers({}, {"alice"}), "root"),
             [s \in Socks |-> 0])

\* a frame taken from a recv() result, counted against MaxOps
RecvStore(s, F) ==
  /\ pc[s] \in {"recv", "next"}
  /\ nframes < MaxOps
  /\ nframes' = nframes + 1
  /\ \E f \in F : HandleMessage(s, f)
  /\ UNCHANGED frameVars

NextStore ==
  \E s \in {2, 3} :
    \/ RecvStore(s, StoreFrames) \/ LoopCheck(s) \/ Login(s)
    \/ GetUsername(s) \/ RegisterWrite(s) \/ ChangeAuth(s) \/ ChangeWrite(s)

SpecStore == InitStore /\ [][NextStore]_vars

\* ----------------------------------------------------------- unicast
\* alice on descriptor 1 writes to bob on descriptor 2 while bob logs out
\* and root logs in on a connection that is not logged in.
UnicastFrames ==
  {[type |-> "MSG_PRIVATE", receiver |-> "bob", content |-> "hi",
    cred |-> <<>>]}
  \cup LogoutFrames \cup {LoginAs("root", "pw12")}

InitUnicast ==
  Quiet([s \in Socks |-> CASE s = 1 -> "alice" [] s = 2 -> "bob"
                           [] OTHER -> ""], {}, {})

NextUnicast ==
  \E s \in Socks :
    \/ RecvStore(s, UnicastFrames) \/ LoopCheck(s) \/ GetUsername(s)
    \/ Login(s) \/ Logout(s)
    \/ PrivateChecks(s) \/ PrivateLog(s) \/ PrivateLookup(s)
    \/ PrivateSend(s)

SpecUnicast == InitUnicast /\ [][NextUnicast]_vars

\* Disconnects while root kicks bob and bob's connection logs in again.
LeaveFrames == {Admin("KICK_USER", "bob"), LoginAs("bob", "pw12")}

InitLeave == Quiet(Seating("alice", "bob"), {}, {})

NextLeave ==
  \E s \in Socks :
    \/ RecvStore(s, LeaveFrames) \/ LoopCheck(s) \/ Leave(s)
    \/ GetUsername(s) \/ AdminRole(s) \/ Kick(s) \/ Login(s)

SpecLeave == InitLeave /\ [][NextLeave]_vars

\* Admin-only commands from admins, former admins, members and sessions
\* that are not logged in.  alice may have been promoted before.
Query(t) == [type |-> t, receiver |-> "", content |-> "", cred |-> <<>>]
AdminOnlyFrames ==
  {Admin(t, "alice") : t \in AdminTypes} \cup {Query(t) : t \in ListTypes}

InitAdmin ==
  \E role \in {0, 1} :
    QuietOn(Seating("alice", ""),
            [StoredUsers({}, {}) EXCEPT !["alice"].role = role],
            [s \in Socks |-> 0])

NextAdmin ==
  \E s \in Socks :
    \/ Loop(s, AdminOnlyFrames) \/ Leave(s) \/ GetUsername(s)
    \/ AdminRole(s) \/ ListReply(s) \/ Kick(s) \/ Ban(s)
    \/ UnbanTarget(s) \/ UnbanWrite(s)
    \/ MuteTarget(s) \/ MuteWrite(s) \/ MuteOnline(s)
    \/ UnmuteTarget(s) \/ UnmuteWrite(s)
    \/ PromoteTarget(s) \/ PromoteWrite(s)
    \/ DemoteTarget(s) \/ DemoteWrite(s)

SpecAdmin == InitAdmin /\ [][NextAdmin]_vars

\* Frames no handler accepts, as the decoder hands them over: a payload
\* that json::parse rejects or that lacks its type, a type code outside the
\* enumeration, server-to-client type codes, and LOGIN, REGISTER and
\* CHANGE_PASSWORD whose content is not the JSON object of credentials.
FromPeer(code, c) == AsFrame(deserialize(Json(code, "", "", c, "", "")))
BadFrames ==
  {AsFrame(deserialize(NotJson)), FromPeer(7, "hi")}
  \cup {FromPeer(TypeCode[t], "hi") :
          t \in {"PONG", "OK", "USER_STATUS", "KICKED", "LOGIN", "REGISTER",
                 "CHANGE_PASSWORD"}}

\* the same while root kicks alice and sessions send heartbeats
BadInputs ==
  BadFrames \cup {Admin("KICK_USER", "alice"), FromPeer(TypeCode.PING, "")}

InitBad == Quiet(Seating("alice", ""), {}, {})

NextBad ==
  \E s \in Socks :
    \/ Loop(s, BadInputs) \/ Leave(s) \/ GetUsername(s) \/ AdminRole(s)
    \/ Kick(s) \/ Pong(s)

SpecBad == InitBad /\ [][NextBad]_vars

\* Two admins, root and the promoted alice, demote each other.
DemoteFrames == {Admin("DEMOTE_USER", "alice"), Admin("DEMOTE_USER", "root")}

InitDemote ==
  QuietOn(Seating("alice", ""),
          [StoredUsers({}, {}) EXCEPT !["alice"].role = 1],
          [s \in Socks |-> 0])

NextDemote ==
  \E s \in Socks :
    \/ Loop(s, DemoteFrames) \/ Leave(s) \/ GetUsername(s) \/ AdminRole(s)
    \/ DemoteTarget(s) \/ DemoteWrite(s)

SpecDemote == InitDemote /\ [][NextDemote]_vars

\* ------------------------------------------------- the operator's name
\* The sender that Server::broadcastServerMessage and
\* Server::sendServerMessageToUser put on the operator's frames.
ServerName == "[SERVER]"

\* A client registers the operator's name, logs in under it and writes.
NameFrames ==
  {Register(ServerName, "pw12"), LoginAs(ServerName, "pw12"),
   [type |-> "MSG_GLOBAL", receiver |-> "", content |-> "hi", cred |-> <<>>],
   [type |-> "MSG_PRIVATE", receiver |-> "root", content |-> "hi",
    cred |-> <<>>]}

\* root on descriptor 1, the others not logged in, the username index
\* ready to hold any name that is registered
InitName ==
  /\ Idle
  /\ clients = Socks
  /\ userToSocket = [u \in NameInputs \cup {ServerName} |->
                       IF u = "root" THEN 1 ELSE NoSock]
  /\ authenticated = [s \in Socks |-> s = 1]
  /\ username = [s \in Socks |-> IF s = 1 THEN "root" ELSE ""]
  /\ active = [s \in Socks |-> TRUE]
  /\ rateCount = [s \in Socks |-> 0]
  /\ users = StoredUsers({}, {})
  /\ pc = [s \in Socks |-> "recv"]

NextName ==
  \E s \in {2, 3} :
    \/ RecvStore(s, NameFrames) \/ LoopCheck(s) \/ Login(s)
    \/ GetUsername(s) \/ RegisterWrite(s)
    \/ GlobalChecks(s) \/ GlobalLog(s) \/ GlobalBroadcast(s)
    \/ PrivateChecks(s) \/ PrivateLog(s) \/ PrivateLookup(s)
    \/ PrivateSend(s)

SpecName == InitName /\ [][NextName]_vars

\* ------------------------------------------------ acceptLoop, by steps
\* Server::getClientCount
getClientCount == Cardinality(clients)

\* accept() returns a connection on the lowest descriptor that is not open;
\* with every descriptor of Socks open that is MaxSock + 1.
AcceptConn ==
  /\ running
  /\ acceptPc = "accept"
  /\ \E fd \in (1..(MaxSock + 1)) \ clients :
       /\ \A g \in (1..(MaxSock + 1)) \ clients : fd <= g
       /\ fd \in Socks => pc[fd] = "none"
       /\ acceptFd' = fd
  /\ acceptPc' = "check"
  /\ UNCHANGED <<running, hubVars, sessVars, rateCount, dbVars, pc, frame,
                 lu, lfd, trace, nframes, stopPc, frameVars, clockVars,
                 outbound, lockVars>>

\* variant: the connection is installed whatever the number of sessions
AcceptCheckNoLimit ==
  /\ acceptPc = "check"
  /\ acceptPc' = "insert"
  /\ UNCHANGED <<running, hubVars, sessVars, rateCount, dbVars, pc, frame,
                 lu, lfd, trace, nframes, stopPc, frameVars, clockVars,
                 acceptFd, outbound, lockVars>>

\* the test on getClientCount(): at the limit the socket is closed and the
\* loop goes back to accept()
AcceptCheck ==
  /\ acceptPc = "check"
  /\ IF getClientCount >= maxClients
     THEN acceptPc' = "accept" /\ acceptFd' = NoSock
     ELSE acceptPc' = "insert" /\ UNCHANGED acceptFd
  /\ UNCHANGED <<running, hubVars, sessVars, rateCount, dbVars, pc, frame,
                 lu, lfd, trace, nframes, stopPc, frameVars, clockVars,
                 outbound, lockVars>>

\* the session is constructed and put in clients_, its worker is started
AcceptInsert ==
  /\ acceptPc = "insert"
  /\ clients' = clients \cup {acceptFd}
  /\ authenticated' = [authenticated EXCEPT ![acceptFd] = FALSE]
  /\ username' = [username EXCEPT ![acceptFd] = ""]
  /\ active' = [active EXCEPT ![acceptFd] = TRUE]
  /\ rateCount' = [rateCount EXCEPT ![acceptFd] = 0]
  /\ windowStart' = [windowStart EXCEPT ![acceptFd] = now]
  /\ Goto(acceptFd, "recv")
  /\ acceptPc' = "accept"
  /\ acceptFd' = NoSock
  /\ UNCHANGED <<running, userToSocket, dbVars, frame, lu, lfd, trace,
                 nframes, stopPc, frameVars, now, passed, outbound, lockVars>>

\* Connections arrive and are closed by their peers while the acceptor is
\* between its test and the insertion, on a server that has just started
\* and on one whose descriptors are all connected.
InitAccept == Init \/ Quiet(Seating("alice", ""), {}, {})

NextAccept ==
  \/ AcceptConn \/ AcceptCheck \/ AcceptInsert
  \/ \E s \in Socks : Leave(s)

SpecAccept == InitAccept /\ [][NextAccept]_vars

\* ------------------------------------------- sending, one send() a step
ClientsMutex == <<"clients", 0>>
SendMutex(r) == <<"send", r>>

\* one send() of sendMessage: thread s has put part k (of two) of the
\* serialized frame m on the connection
Chunk(s, m, k) == [from |-> s, msg |-> m, part |-> k]
Written(r, s, m, k) ==
  outbound' = [outbound EXCEPT ![r] = Append(@, Chunk(s, m, k))]
Lock(s, l) == holder' = [holder EXCEPT ![l] = s]
Unlock(l) == holder' = [holder EXCEPT ![l] = NoThread]

\* the frame a handler hands to Server::broadcast, the excluded socket, and
\* where the handler goes on afterwards
FanMessage(s) ==
  IF frame[s].type = "LOGOUT" THEN createUserStatusMessage(lu[s], FALSE)
  ELSE createGlobalMessage(lu[s], frame[s].content)
FanExclude(s) == IF frame[s].type = "LOGOUT" THEN s ELSE NoSock
FanAfter(s) == IF frame[s].type = "LOGOUT" THEN "logout_unreg" ELSE "next"

\* std::map iteration: the key of clients_ after fd, NoSock at end()
NextFd(fd) ==
  IF \E g \in clients : g > fd
  THEN CHOOSE g \in clients : g > fd /\ \A h \in clients : h > fd => g <= h
  ELSE NoSock

\* variant: the loop over clients_ runs without clientsMutex_
FanStartUnlocked(s) ==
  /\ pc[s] \in {"g_bcast", "logout_bcast"}
  /\ lfd' = [lfd EXCEPT ![s] = NextFd(0)]
  /\ Goto(s, "f_test")
  /\ UNCHANGED <<running, hubVars, sessVars, rateCount, dbVars, frame, lu,
                 trace, nframes, stopPc, frameVars, clockVars, acceptVars,
                 outbound, holder, path>>

\* Server::broadcast: lock_guard(clientsMutex_), begin() of the loop
FanStart(s) ==
  /\ pc[s] \in {"g_bcast", "logout_bcast"}
  /\ holder[ClientsMutex] = NoThread
  /\ Lock(s, ClientsMutex)
  /\ lfd' = [lfd EXCEPT ![s] = NextFd(0)]
  /\ Goto(s, "f_test")
  /\ UNCHANGED <<running, hubVars, sessVars, rateCount, dbVars, frame, lu,
                 trace, nframes, stopPc, frameVars, clockVars, acceptVars,
                 outbound, path>>

\* the loop condition and the test fd != excludeSocket &&
\* session->isAuthenticated(); past the last session the lock is released
FanTest(s) ==
  /\ pc[s] = "f_test"
  /\ IF lfd[s] = NoSock
     THEN /\ holder' = [holder EXCEPT ![ClientsMutex] =
                          IF @ = s THEN NoThread ELSE @]
          /\ Goto(s, FanAfter(s))
          /\ UNCHANGED lfd
     ELSE IF lfd[s] # FanExclude(s) /\ authenticated[lfd[s]]
     THEN Goto(s, "f_first") /\ UNCHANGED <<lfd, holder>>
     ELSE /\ lfd' = [lfd EXCEPT ![s] = NextFd(lfd[s])]
          /\ UNCHANGED <<pc, holder>>
  /\ UNCHANGED <<running, hubVars, sessVars, rateCount, dbVars, frame, lu,
                 trace, nframes, stopPc, frameVars, clockVars, acceptVars,
                 outbound, path>>

\* variant: sendMessage writes without sendMutex_
FanFirstUnlocked(s) ==
  /\ pc[s] = "f_first"
  /\ IF ~active[lfd[s]]
     THEN /\ lfd' = [lfd EXCEPT ![s] = NextFd(lfd[s])]
          /\ Goto(s, "f_test")
          /\ UNCHANGED outbound
     ELSE /\ Written(lfd[s], s, FanMessage(s), 1)
          /\ Goto(s, "f_rest")
          /\ UNCHANGED lfd
  /\ UNCHANGED <<running, hubVars, sessVars, rateCount, dbVars, frame, lu,
                 trace, nframes, stopPc, frameVars, clockVars, acceptVars,
                 holder, path>>

\* ClientSession::sendMessage on the session under the cursor:
\* lock_guard(sendMutex_), the test of active_, the first send()
FanFirst(s) ==
  /\ pc[s] = "f_first"
  /\ holder[SendMutex(lfd[s])] = NoThread
  /\ IF ~active[lfd[s]]
     THEN /\ lfd' = [lfd EXCEPT ![s] = NextFd(lfd[s])]
          /\ Goto(s, "f_test")
          /\ UNCHANGED <<outbound, holder>>
     ELSE /\ Lock(s, SendMutex(lfd[s]))
          /\ Written(lfd[s], s, FanMessage(s), 1)
          /\ Goto(s, "f_rest")
          /\ UNCHANGED lfd
  /\ UNCHANGED <<running, hubVars, sessVars, rateCount, dbVars, frame, lu,
                 trace, nframes, stopPc, frameVars, clockVars, acceptVars,
                 path>>

\* the send() that completes the frame; sendMutex_ is released and the loop
\* moves to the next session
FanRest(s) ==
  /\ pc[s] = "f_rest"
  /\ Written(lfd[s], s, FanMessage(s), 2)
  /\ holder' = [holder EXCEPT ![SendMutex(lfd[s])] =
                  IF @ = s THEN NoThread ELSE @]
  /\ Emit(s, <<SendEv(lfd[s], FanMessage(s))>>)
  /\ lfd' = [lfd EXCEPT ![s] = NextFd(lfd[s])]
  /\ Goto(s, "f_test")
  /\ UNCHANGED <<running, hubVars, sessVars, rateCount, dbVars, frame, lu,
                 nframes, stopPc, frameVars, clockVars, acceptVars, path>>

\* ClientSession::clearAuthentication in handleLogout
ClearAuthentication(s) ==
  /\ pc[s] = "logout_clear"
  /\ username' = [username EXCEPT ![s] = ""]
  /\ authenticated' = [authenticated EXCEPT ![s] = FALSE]
  /\ Goto(s, "reply")
  /\ UNCHANGED <<running, hubVars, active, rateCount, dbVars, frame, lu, lfd,
                 trace, nframes, stopPc, frameVars, clockVars, stepVars>>

\* the frame a handler sends to its own session
OwnReply(s) ==
  IF frame[s].type = "PING" THEN Message("PONG", "", "", "")
  ELSE createOkResponse("Logged out successfully")

\* sendMessage called by the session's own worker: lock_guard(sendMutex_),
\* the test of active_, the first send()
ReplyFirst(s) ==
  /\ pc[s] \in {"ping", "reply"}
  /\ holder[SendMutex(s)] = NoThread
  /\ IF ~active[s]
     THEN Goto(s, "next") /\ UNCHANGED <<outbound, holder>>
     ELSE /\ Lock(s, SendMutex(s))
          /\ Written(s, s, OwnReply(s), 1)
          /\ Goto(s, "reply_rest")
  /\ UNCHANGED <<running, hubVars, sessVars, rateCount, dbVars, frame, lu,
                 lfd, trace, nframes, stopPc, frameVars, clockVars,
                 acceptVars, path>>

ReplyRest(s) ==
  /\ pc[s] = "reply_rest"
  /\ Written(s, s, OwnReply(s), 2)
  /\ holder' = [holder EXCEPT ![SendMutex(s)] =
                  IF @ = s THEN NoThread ELSE @]
  /\ Emit(s, <<SendEv(s, OwnReply(s))>>)
  /\ Goto(s, "next")
  /\ UNCHANGED <<running, hubVars, sessVars, rateCount, dbVars, frame, lu,
                 lfd, nframes, stopPc, frameVars, clockVars, acceptVars,
                 path>>

\* root, alice and bob are online; they write to everyone, ask for a
\* heartbeat and log out.  A session that has logged out only sends
\* heartbeats.
Chat(c) == [type |-> "MSG_GLOBAL", receiver |-> "", content |-> c, cred |-> <<>>]
Heartbeat == [type |-> "PING", receiver |-> "", content |-> "", cred |-> <<>>]
FanFrames ==
  {Chat("hi"), Chat("yo"), Heartbeat,
   [type |-> "LOGOUT", receiver |-> "", content |-> "", cred |-> <<>>]}

RecvFan(s) ==
  Recv(s, IF authenticated[s] THEN FanFrames ELSE {Heartbeat})

InitFan == Quiet(Seating("alice", "bob"), {}, {})

NextFan ==
  \E s \in Socks :
    \/ RecvFan(s) \/ LoopCheck(s) \/ GetUsername(s)
    \/ GlobalChecks(s) \/ GlobalLog(s)
    \/ FanStart(s) \/ FanTest(s) \/ FanFirst(s) \/ FanRest(s)
    \/ LogoutUnregister(s) \/ ClearAuthentication(s)
    \/ ReplyFirst(s) \/ ReplyRest(s)

SpecFan == InitFan /\ [][NextFan]_vars

\* ------------------------------------------------------------ the mutexes
\* Every stretch of code during which a thread holds a mutex, as the
\* sequence of lock and unlock operations it performs.  Between two such
\* stretches a thread holds nothing.
UsersMutex == <<"users", 0>>
StoreMutex == <<"store", 0>>
StateMutex(r) == <<"state", r>>

Acq(l) == <<"acq", l>>
Rel(l) == <<"rel", l>>
Alone(l) == <<Acq(l), Rel(l)>>
Inside(l, q) == <<Acq(l)>> \o q \o <<Rel(l)>>

\* the stretches of f(r), one after the other, for the r of rs in key order
RECURSIVE Each(_, _, _)
Each(f(_), rs, from) ==
  IF \A r \in rs : r < from THEN <<>>
  ELSE LET r == CHOOSE x \in rs : x >= from /\ \A y \in rs : y >= from => x <= y
       IN f(r) \o Each(f, rs, r + 1)

\* Server::broadcast when the sessions rs pass the test of the loop
broadcastLocks(rs) ==
  Inside(ClientsMutex, Each(LAMBDA r : Alone(SendMutex(r)), rs, 1))
\* Server::sendToUser, second block: find() and sendMessage
sendToUserLocks(r) == Inside(ClientsMutex, Alone(SendMutex(r)))
\* variant: the lock on the username index is kept over the second block
kickUserHoldingUsers(r) ==
  Inside(UsersMutex, Inside(ClientsMutex, Alone(StateMutex(r))))
\* Server::kickUser, second block: setInactive and clearAuthentication
kickUserLocks(r) == Inside(ClientsMutex, Alone(StateMutex(r)))
\* Server::getConnectedClients when the index holds rs, of which the
\* sessions of as are logged in: getUsername, getDisplayName, getUserRole
getConnectedClientsLocks(rs, as) ==
  Inside(ClientsMutex,
         Each(LAMBDA r : Alone(StateMutex(r)) \o Alone(StateMutex(r))
                         \o (IF r \in as THEN Alone(StoreMutex) ELSE <<>>),
              rs, 1))

\* what a thread may enter: a worker runs the handlers of its session, the
\* acceptor and the caller of stop() touch the index (and the store), the
\* operator uses the server's hooks (its list of clients is taken with
\* every descriptor connected)
Sections(t) ==
  IF t \in Socks
  THEN {Alone(ClientsMutex), Alone(UsersMutex), Alone(StoreMutex),
        Alone(SendMutex(t)), Alone(StateMutex(t))}
       \cup {broadcastLocks(rs) : rs \in SUBSET Socks}
       \cup {sendToUserLocks(r) : r \in Socks}
       \cup {kickUserLocks(r) : r \in Socks}
  ELSE IF t = Acceptor THEN {Alone(ClientsMutex)}
  ELSE IF t = Stopper THEN {Alone(ClientsMutex), Alone(StoreMutex)}
  ELSE {Alone(UsersMutex)}
       \cup {broadcastLocks(rs) : rs \in SUBSET Socks}
       \cup {sendToUserLocks(r) : r \in Socks}
       \cup {getConnectedClientsLocks(Socks, as) : as \in SUBSET Socks}

\* std::lock_guard: the constructor returns once the mutex is free
Acquire(t) ==
  /\ path[t] # <<>>
  /\ Head(path[t])[1] = "acq"
  /\ holder[Head(path[t])[2]] = NoThread
  /\ Lock(t, Head(path[t])[2])
  /\ path' = [path EXCEPT ![t] = Tail(@)]
  /\ UNCHANGED <<running, hubVars, sessVars, rateCount, dbVars, pc, frame,
                 lu, lfd, trace, nframes, stopPc, frameVars, clockVars,
                 acceptVars, outbound>>

\* the destructor of the lock_guard
Release(t) ==
  /\ path[t] # <<>>
  /\ Head(path[t])[1] = "rel"
  /\ Unlock(Head(path[t])[2])
  /\ path' = [path EXCEPT ![t] = Tail(@)]
  /\ UNCHANGED <<running, hubVars, sessVars, rateCount, dbVars, pc, frame,
                 lu, lfd, trace, nframes, stopPc, frameVars, clockVars,
                 acceptVars, outbound>>

\* a thread that holds nothing comes to one of its stretches and gets its
\* first mutex
Enter(t) ==
  /\ path[t] = <<>>
  /\ \E q \in Sections(t) :
       /\ holder[Head(q)[2]] = NoThread
       /\ Lock(t, Head(q)[2])
       /\ path' = [path EXCEPT ![t] = Tail(q)]
  /\ UNCHANGED <<running, hubVars, sessVars, rateCount, dbVars, pc, frame,
                 lu, lfd, trace, nframes, stopPc, frameVars, clockVars,
                 acceptVars, outbound>>

InitLocks == Quiet(Seating("alice", "bob"), {}, {})

NextLocks == \E t \in Threads : Enter(t) \/ Acquire(t) \/ Release(t)

SpecLocks == InitLocks /\ [][NextLocks]_vars

\* ----------------------------------------------------------------- claims
\* the sessions of the socket index that are authenticated as u
SessionsOf(u) == {s \in clients : authenticated[s] /\ username[s] = u}

\* C1: at any instant at most one session is authenticated under a given
\* username, concurrent LOGIN frames for that username included.
C1_OneSessionPerUser ==
  \A u \in Names : Cardinality(SessionsOf(u)) <= 1

\* C2: every entry (u -> s) of the username index names a socket of the
\* socket index whose session is authenticated as u, whatever LOGIN, LOGOUT,
\* disconnect and stop() have been interleaved.
C2_IndexRefersToSession ==
  \A u \in NameInputs :
    userToSocket[u] # NoSock => userToSocket[u] \in SessionsOf(u)

\* the handler on s has written a reply of type t to its own session
Replied(s, t) ==
  \E i \in 1..Len(trace[s]) :
    trace[s][i].ev = "send" /\ trace[s][i].to = s /\ trace[s][i].type = t

\* s has finished a command of type t on target u and answered it OK
AnsweredOk(s, t, u) ==
  /\ pc[s] = "next" /\ frame[s].type = t /\ frame[s].receiver = u
  /\ Replied(s, "OK")

\* the sessions authenticated as u whose worker is still in its read loop
ServingAs(u) ==
  {t \in SessionsOf(u) : pc[t] \notin {"x_bcast", "x_unreg", "x_remove"}}

\* C3: no LOGIN for a username whose banned flag is set succeeds, and once
\* a BAN_USER(u) has been answered OK no session is authenticated as u
\* while u is banned, a LOGIN as u handled concurrently included (a session
\* whose worker has left its read loop and is being removed is not counted).
C3_BannedNeverAuthenticated ==
  /\ \A s \in Socks :
       pc[s] = "login_set" => ~isBanned(frame[s].cred[1])
  /\ \A s \in Socks, u \in Names :
       AnsweredOk(s, "BAN_USER", u) /\ isBanned(u) => ServingAs(u) = {}

\* C4: no user has role admin together with a banned or a muted flag,
\* whatever BAN, MUTE, PROMOTE and DEMOTE commands have been handled.
C4_AdminNeverBannedOrMuted ==
  \A u \in Names :
    users[u].role = 1 => ~users[u].is_banned /\ ~users[u].is_muted

\* the trace of the handler on s holds event e
HasEv(s, e) == \E i \in 1..Len(trace[s]) : trace[s][i] = e

\* while the command on s ran, a LOGIN as u was registered
SawRegister(s, u) == \E fd \in Socks : HasEv(s, LoginEv(fd, u, "register"))
\* while the command on s ran, session fd was authenticated by a LOGIN
SawAuth(s, fd) == \E u \in Names : HasEv(s, LoginEv(fd, u, "auth"))

\* the step in which the KICK_USER handler on s writes its OK reply
KickAnswered(s) == pc[s] = "k_done" /\ pc'[s] = "next" /\ active[s]

Sender(s) == trace[s][1].sender
\* a chat frame of type t is being handled, or was handled last, on s
Chatting(s, t) == frame[s].type = t /\ pc[s] \notin {"recv", "none"}
\* rows the handler on s has added to the message log
Rows(s) == {i \in 1..Len(trace[s]) : trace[s][i].ev = "log"}
\* frames of type t the handler on s has sent
Sent(s, t) ==
  {i \in 1..Len(trace[s]) : trace[s][i].ev = "send" /\ trace[s][i].type = t}

\* C6: a MSG_GLOBAL or MSG_PRIVATE frame taken from a session whose user is
\* muted is delivered to no session and adds no row to the message log.
C6_MutedNeverDelivered ==
  \A s \in Socks :
    /\ Chatting(s, "MSG_GLOBAL") \/ Chatting(s, "MSG_PRIVATE")
    /\ Sender(s) # "" /\ trace[s][1].type = "muted"
    => /\ Rows(s) = {}
       /\ Sent(s, "MSG_GLOBAL") = {} /\ Sent(s, "MSG_PRIVATE") = {}

\* C7: a MSG_GLOBAL frame accepted from a session authenticated as u adds
\* exactly one row (sender u, no receiver, kind global) before the fan-out,
\* and the fan-out sends every session authenticated at that time one
\* MSG_GLOBAL frame with sender u and the submitted content.
C7_GlobalLoggedThenFannedOut ==
  [][\A s \in Socks :
       pc[s] = "g_bcast" /\ pc'[s] = "next" /\ Sender(s) # "" =>
         LET u == Sender(s)
             m == SendEv(s, createGlobalMessage(u, frame[s].content))
         IN /\ Cardinality(Rows(s)) = 1
            /\ HasEv(s, LogEv(u, "", frame[s].content, "global"))
            /\ \A t \in clients :
                 authenticated[t] =>
                   Cardinality({i \in 1..Len(trace'[s]) :
                                  trace'[s][i] = [m EXCEPT !.to = t]}) = 1
     ]_vars

\* C8: a MSG_PRIVATE frame whose receiver is not online is answered with an
\* ERROR naming the receiver as not online, is delivered to nobody and adds
\* no row to the message log.
C8_OfflineReceiverNoRow ==
  \A s \in Socks :
    /\ pc[s] = "next" /\ frame[s].type = "MSG_PRIVATE"
    /\ HasEv(s, SendEv(s, createErrorResponse(
                            "User not online: " \o frame[s].receiver)))
    => Rows(s) = {} /\ Sent(s, "MSG_PRIVATE") = {}

\* what the handler on s has done since it took its frame up
Effects(s) == Tail(trace[s])
\* an ERROR reply with text c, written to s itself
ErrorTo(s, c) == SendEv(s, createErrorResponse(c))
\* exactly one effect, an ERROR reply to s itself
OneError(s) ==
  /\ Len(Effects(s)) = 1
  /\ Effects(s)[1].ev = "send" /\ Effects(s)[1].to = s
  /\ Effects(s)[1].type = "ERROR"
\* the LOGIN handler on s has returned without calling setAuthenticated
Rejected(s) ==
  /\ pc[s] = "next" /\ frame[s].type = "LOGIN"
  /\ \A i \in 1..Len(trace[s]) : trace[s][i].ev # "auth"
\* a LOGIN that cannot be accepted whatever the other threads do: taken up
\* on a logged-in session, malformed, or with credentials that do not match
MustReject(s) ==
  \/ Sender(s) # ""
  \/ frame[s].cred = <<>>
  \/ ~authenticateUser(frame[s].cred[1], frame[s].cred[2])

\* C9 as stated: a rejected LOGIN is answered with exactly one ERROR frame
\* and has no other effect: no authentication, no username index entry, no
\* USER_STATUS frame, nothing done to the session already online.
C9_RejectedLoginOneError ==
  \A s \in Socks :
    /\ pc[s] = "next" /\ frame[s].type = "LOGIN" /\ MustReject(s)
       => Rejected(s)
    /\ Rejected(s) => OneError(s)

\* C9: a rejected LOGIN on a session that is active when the reply is
\* written is answered with exactly one ERROR frame; on an inactive session
\* nothing is sent; either way the handler has no other effect (no
\* authentication, no username index entry, no USER_STATUS frame), and
\* before it returns it has had no effect at all.
C9_RejectedLoginOneErrorIfActive ==
  \A s \in Socks :
    /\ pc[s] = "next" /\ frame[s].type = "LOGIN" /\ MustReject(s)
       => Rejected(s)
    /\ Rejected(s) => \/ OneError(s)
                      \/ Effects(s) = <<>> /\ ~active[s]
    /\ pc[s] \in {"login_online", "login_banned", "login_auth"}
       => Effects(s) = <<>>

\* C9 witness: a LOGIN as alice was rejected because alice is online on
\* another session; one ERROR was sent and that session is still
\* authenticated as alice and in the username index.
C9_Witness ==
  \E s \in Socks :
    /\ Rejected(s) /\ frame[s].cred # <<>> /\ frame[s].cred[1] = "alice"
    /\ Effects(s) =
         <<ErrorTo(s, "User already logged in from another location")>>
    /\ userToSocket["alice"] \in SessionsOf("alice") \ {s}

\* root's BAN_USER(u) found u online, marked a live session inactive, was
\* answered OK, and u is still banned
BanStands(u) ==
  /\ isBanned(u)
  /\ \E a \in Socks :
       /\ AnsweredOk(a, "BAN_USER", u)
       /\ \E t \in Socks : HasEv(a, InactiveEv(t, TRUE))
\* the BAN_USER handler on a sent BANNED to t before position j of its trace
BannedBefore(a, t, j) ==
  \E i \in 1..(j - 1) :
    /\ trace[a][i].ev = "send" /\ trace[a][i].to = t
    /\ trace[a][i].type = "BANNED"
\* the offline notice of the command on a, as sent to t
OfflineTo(a, t) ==
  SendEv(t, createUserStatusMessage(frame[a].receiver, FALSE))
BannedText == "Your account has been banned"

PongTo(s) == SendEv(s, Message("PONG", "", "", ""))

\* C11: a PING frame on an active session, Anonymous or Authenticated, muted
\* or not, over its chat rate limit or not, is answered with exactly one
\* PONG frame and changes no session, hub, account-store or rate-limit state.
C11_PingAnsweredWithPong ==
  [][\A s \in Socks :
       pc[s] = "ping" /\ pc'[s] # "ping" /\ active[s] =>
         /\ pc'[s] = "next"
         /\ trace'[s] = <<trace[s][1], PongTo(s)>>
         /\ UNCHANGED <<sessVars, hubVars, dbVars, rateCount, windowStart>>
    ]_vars

\* C11 witness: alice, muted and with her rate window used up, sent PING and
\* got one PONG; an anonymous session at its limit got one as well.
C11_Witness ==
  \E s, t \in Socks :
    /\ pc[s] = "next" /\ frame[s].type = "PING"
    /\ Sender(s) = "alice" /\ trace[s][1].type = "muted"
    /\ rateCount[s] >= RATE_LIMIT_MAX_MESSAGES
    /\ Effects(s) = <<PongTo(s)>>
    /\ pc[t] = "next" /\ frame[t].type = "PING" /\ Sender(t) = ""
    /\ rateCount[t] >= RATE_LIMIT_MAX_MESSAGES
    /\ Effects(t) = <<PongTo(t)>>

\* no length prefix of the stream exceeds the maximum frame size
Valid(w) == \A i \in 1..Len(w) : w[i].len <= MAX_MESSAGE_SIZE
\* the message each frame of the stream decodes to
Decoded(w) == [i \in 1..Len(w) |-> deserialize(w[i].json)]
\* the frames of w that lie wholly within its first hi bytes
Whole(w, hi) == Cardinality({i \in 1..Len(w) : Offset(w, i + 1) <= hi})

\* C12: whatever the byte boundaries at which the encoded bytes of a
\* sequence of frames reach the framing buffer, the messages dispatched are
\* exactly the original frames, each once and in the original order: what
\* was dispatched is always a prefix of the sequence, the buffer holds the
\* bytes after it, and when processData has returned every frame that
\* arrived whole has been dispatched.
C12_FragmentsYieldFrames ==
  \A s \in Socks :
    Valid(wire[s]) =>
      /\ Len(handled[s]) <= Len(wire[s])
      /\ \A i \in 1..Len(handled[s]) : handled[s][i] = Decoded(wire[s])[i]
      /\ buffer[s].lo = Offset(wire[s], Len(handled[s]) + 1)
      /\ pc[s] = "recv" =>
           Len(handled[s]) = Whole(wire[s], buffer[s].hi)

\* C12 witness: of two frames the first was dispatched, after arriving in
\* pieces or whole, and a recv() has ended two bytes into the length prefix
\* of the second.
C12_Witness ==
  \E s \in Socks :
    /\ Len(wire[s]) = 2 /\ Valid(wire[s]) /\ wire[s][1].json.ok
    /\ handled[s] = <<Decoded(wire[s])[1]>>
    /\ pc[s] = "recv" /\ Size(s) = 2

\* the message m was encoded onto connection s and has been decoded again
RoundTrip(s, m) == wire[s] = <<serialize(m)>> /\ handled[s] # <<>>

\* C13 as stated: decode(encode(m)) = m for every well-formed message m,
\* in type, sender, receiver, content, timestamp and extra.
C13_DecodeEncodeIdentity ==
  \A s \in Socks, m \in CodecMessages :
    RoundTrip(s, m) => handled[s][1] = m

\* C13: decode(encode(m)) equals m in type, sender, receiver, content and
\* extra, and in timestamp if m carries one; for a message with an empty
\* timestamp the decoded timestamp is the encoder's clock reading.
C13_DecodeEncodeUpToTimestamp ==
  \A s \in Socks, m \in CodecMessages :
    RoundTrip(s, m) =>
      handled[s][1] =
        [m EXCEPT !.timestamp = IF @ = "" THEN ClockText ELSE @]

\* C13 witness: a chat message with every field set was encoded, received
\* and decoded to itself.
C13_Witness ==
  \E s \in Socks :
    LET m == WireMessage("MSG_GLOBAL", "alice", "bob", "hi", "09:30:00",
                         "[]")
    IN RoundTrip(s, m) /\ handled[s] = <<m>>

\* the buffer of s holds a length prefix above the maximum at its head
OversizeAtHead(s) == Size(s) >= 4 /\ headLength(s) > MAX_MESSAGE_SIZE
\* the worker of s takes the step
Steps(s) ==
  pc'[s] # pc[s] \/ trace'[s] # trace[s] \/ buffer'[s] # buffer[s]

\* C14: a frame whose length prefix equals the maximum frame size is
\* dispatched once its bytes have arrived; and when the length prefix at the
\* head of a session's buffer exceeds the maximum, the session's next step
\* clears the buffer and emits an error frame.
C14_LargestAcceptedOversizeCleared ==
  [][\A s \in Socks :
       /\ \A i \in 1..Len(wire[s]) :
            /\ wire[s][i].len = MAX_MESSAGE_SIZE
            /\ \A j \in 1..i : wire[s][j].len <= MAX_MESSAGE_SIZE
            /\ pc[s] = "recv" /\ buffer[s].hi >= Offset(wire[s], i + 1)
            => /\ Len(handled[s]) >= i
               /\ handled[s][i] = Decoded(wire[s])[i]
       /\ pc[s] = "next" /\ OversizeAtHead(s) /\ Steps(s)
            => /\ buffer'[s].lo = buffer'[s].hi
               /\ \E k \in 1..Len(trace'[s]) :
                    trace'[s][k].ev = "send" /\ trace'[s][k].type = "ERROR"
    ]_vars

\* the frames of the stream of s that are well formed: length prefix within
\* the maximum and a payload that parses
WellFormed(s) ==
  {j \in 1..Len(wire[s]) :
     wire[s][j].json.ok /\ wire[s][j].len <= MAX_MESSAGE_SIZE}
\* a frame of the stream of s is malformed and a well-formed one follows it
MalformedThenWellFormed(s) ==
  \E j \in 1..Len(wire[s]) : j \notin WellFormed(s) /\
    \E i \in WellFormed(s) : i > j
\* the messages handed to handleMessage on s that came from parsed payloads
Parsed(s) == {k \in 1..Len(handled[s]) : handled[s][k].type # "ERROR"}
\* every byte the peer wrote is in the session and processData has returned
AllRead(s) == pc[s] = "recv" /\ buffer[s].hi = Total(wire[s])

\* C15: a malformed frame does not close the connection and reading
\* continues: once the session has read every byte the peer wrote and has
\* gone back to waiting, the connection is still open and every well-formed
\* frame, those after a malformed one included, has been dispatched.
C15_ReadingContinuesAfterMalformed ==
  \A s \in Socks :
    MalformedThenWellFormed(s) /\ AllRead(s) =>
      /\ s \in clients /\ active[s]
      /\ Cardinality(Parsed(s)) = Cardinality(WellFormed(s))


\* C16: in every rolling one-second interval at most RATE_LIMIT_MAX_MESSAGES
\* chat frames of a session pass the rate limit, wherever the frames fall
\* relative to the session's window start: of any RATE_LIMIT_MAX_MESSAGES + 1
\* frames that passed, the last is at least one second after the first.
C16_RollingWindowLimit ==
  \A s \in Socks :
    \A i \in 1..Len(passed[s]) :
      i + RATE_LIMIT_MAX_MESSAGES <= Len(passed[s]) =>
        passed[s][i + RATE_LIMIT_MAX_MESSAGES] - passed[s][i]
          >= TicksPerSecond * RATE_LIMIT_WINDOW_SECONDS


\* C17: while the server runs, a users table that is not empty holds at
\* least one admin; in particular the first user registered on an empty
\* store is an admin.
C17_SomeAdminIfAnyUser ==
  running /\ DOMAIN users # {} => \E u \in DOMAIN users : users[u].role = 1


\* the step is a registerUser call of session s that inserts a row
Registers(s) ==
  /\ pc[s] = "reg_do" /\ pc'[s] # "reg_do"
  /\ frame[s].cred[1] \notin DOMAIN users
  /\ frame[s].cred[1] \in DOMAIN users'
\* the step is the UPDATE of a changePassword call for user u
ChangesPassword(u) ==
  \E t \in Socks : pc[t] = "cp_write" /\ pc'[t] # "cp_write" /\ lu[t] = u
\* what authenticate answers for u is the same before and after the step
SameAnswers(u) ==
  \A p \in PasswordInputs : authenticateUser(u, p)' = authenticateUser(u, p)

\* C18 as stated: after register(u,p) succeeds, authenticate(u,p) is true
\* and authenticate(u,p') is false for every password p' other than p, and
\* this stays so until the password of u is changed.
C18_RegisterThenAuthenticate ==
  [][\A s \in Socks :
       /\ Registers(s) =>
            /\ authenticateUser(frame[s].cred[1], frame[s].cred[2])'
            /\ \A q \in PasswordInputs \ {frame[s].cred[2]} :
                 ~authenticateUser(frame[s].cred[1], q)'
       /\ \A u \in DOMAIN users : ~ChangesPassword(u) => SameAnswers(u)
    ]_vars

\* C18: after register(u,p) succeeds, authenticate(u,p) is true and
\* authenticate(u,p') is false for every password p' whose salted digest
\* differs from that of p, and this stays so until the password of u is
\* changed.
C18_RegisterThenAuthenticateByDigest ==
  [][\A s \in Socks :
       /\ Registers(s) =>
            /\ authenticateUser(frame[s].cred[1], frame[s].cred[2])'
            /\ \A q \in PasswordInputs :
                 hashPassword(q) # hashPassword(frame[s].cred[2])
                   => ~authenticateUser(frame[s].cred[1], q)'
       /\ \A u \in DOMAIN users : ~ChangesPassword(u) => SameAnswers(u)
    ]_vars

\* C18 witness: carol registered with pw12 and was answered OK, another
\* session has been answered on a LOGIN, and authenticate accepts pw12 and
\* refuses bad1 for carol.
C18_Witness ==
  \E s, t \in Socks :
    /\ s # t /\ frame[s] = Register("carol", "pw12") /\ pc[s] = "next"
    /\ trace[s] # <<>>
    /\ trace[s][Len(trace[s])].type = "OK"
    /\ frame[t].type = "LOGIN" /\ pc[t] = "next"
    /\ authenticateUser("carol", "pw12")
    /\ ~authenticateUser("carol", "bad1")


\* the last effect of the handler running on s
LastEffect(s) == trace[s][Len(trace[s])]
\* the REGISTER handler on s has returned with an OK reply
RegisteredOk(s) ==
  /\ frame[s].type = "REGISTER" /\ pc[s] = "next" /\ trace[s] # <<>>
  /\ LastEffect(s).type = "OK"

\* C19: usernames stay unique.  A REGISTER for a username that is present
\* is answered with an ERROR and leaves the table as it is; a REGISTER for a
\* new username inserts a row with the hashed password, role 0, banned and
\* muted false, leaves every other row as it is and is answered OK; no row
\* is ever removed; so of two REGISTER frames for one new username handled
\* concurrently exactly one is answered OK.
C19_UsernamesUnique ==
  [][\A s \in Socks :
       /\ DOMAIN users \subseteq DOMAIN users'
       /\ pc[s] = "reg_do" /\ pc'[s] # "reg_do" =>
            LET u == frame[s].cred[1]
                p == frame[s].cred[2]
                reply == trace'[s][Len(trace'[s])]
            IN  IF u \in DOMAIN users
                THEN /\ users' = users
                     /\ reply = ErrorTo(s, "Username already exists")
                ELSE /\ DOMAIN users' = DOMAIN users \cup {u}
                     /\ users'[u] = [password |-> hashPassword(p),
                                     role |-> 0, is_banned |-> FALSE,
                                     is_muted |-> FALSE]
                     /\ \A x \in DOMAIN users : users'[x] = users[x]
                     /\ reply.ev = "send" /\ reply.to = s
                     /\ reply.type = "OK"
       /\ \A t \in Socks \ {s} :
            RegisteredOk(s) /\ RegisteredOk(t)
              => frame[s].cred[1] # frame[t].cred[1]
    ]_vars

\* C19 witness: two sessions sent REGISTER for carol, a new username, and
\* both handlers have returned: one was answered OK, the other with the
\* ERROR for a username that exists.
C19_Witness ==
  \E s, t \in Socks :
    /\ RegisteredOk(s) /\ frame[s].cred[1] = "carol"
    /\ frame[t] = frame[s] /\ pc[t] = "next"
    /\ trace[t] = <<trace[t][1], ErrorTo(t, "Username already exists")>>


\* the LOGIN handler on s, a session that is not logged in, has returned
\* after refusing credentials that authenticate does not accept
FailedLogin(s) ==
  /\ pc[s] = "next" /\ frame[s].type = "LOGIN" /\ frame[s].cred # <<>>
  /\ ~authenticated[s]
  /\ ~authenticateUser(frame[s].cred[1], frame[s].cred[2])

\* C20: authentication does not disclose whether a username exists: the
\* reply to a failing LOGIN is the one a LOGIN naming an absent account
\* gets, whether or not the account it names exists.
C20_LoginHidesExistence ==
  \A s \in Socks :
    FailedLogin(s) =>
      trace[s] = <<trace[s][1], ErrorTo(s, "Invalid username or password")>>


\* no handler is running: every worker waits in recv() for its peer, or its
\* connection is gone; only a peer can make the server take another step
AllWaiting == \A t \in Socks : pc[t] \in {"recv", "none"}

\* C21: a kicked session is closed and removed from the socket index by its
\* own read loop without any further action of its peer: once the server's
\* threads have done all they can do on their own, no session that was
\* marked inactive is left in the socket index.
C21_KickedSessionClosed ==
  \A s \in Socks : running /\ AllWaiting /\ ~active[s] => s \notin clients


\* session s has been kicked: it is in the socket index, marked inactive,
\* with its authentication cleared
Kicked(s) == s \in clients /\ ~active[s] /\ ~authenticated[s]
\* effect e is a USER_STATUS(online) frame sent to some session
OnlineStatus(e) ==
  e.ev = "send" /\ e.type = "USER_STATUS" /\ e.content = "online"

\* C22: Closed is terminal.  A step taken while session s is kicked leaves s
\* unauthenticated, enters no username into the username index under s, and
\* sends no USER_STATUS(online) frame on behalf of s, whatever frames arrive
\* on its connection.
C22_ClosedIsTerminal ==
  [][\A s \in Socks :
       Kicked(s) =>
         /\ ~authenticated'[s]
         /\ \A u \in NameInputs :
              userToSocket'[u] = s => userToSocket[u] = s
         /\ \A i \in 1..Len(trace'[s]) :
              OnlineStatus(trace'[s][i]) =>
                i <= Len(trace[s]) /\ trace[s][i] = trace'[s][i]
    ]_vars


\* the effects the step adds to the trace of the handler running on s
NewEffects(s) == SubSeq(trace'[s], Len(trace[s]) + 1, Len(trace'[s]))

\* C23: sendToUser(r, frame) delivers the frame only to a session that is
\* authenticated as r at the moment the frame is sent: the receiver's copy
\* of a MSG_PRIVATE goes to no session that is not logged in as the receiver
\* the frame names, also when r logs out or another user logs in on r's
\* former connection between the username lookup and the send.
C23_UnicastReachesNamedUser ==
  [][\A s \in Socks :
       pc[s] = "p_send" /\ pc'[s] = "next" =>
         \A i \in 1..Len(NewEffects(s)) :
           LET e == NewEffects(s)[i] IN
           e.ev = "send" /\ e.type = "MSG_PRIVATE" /\ e.to # s =>
             authenticated[e.to] /\ username[e.to] = frame[s].receiver
    ]_vars


\* the sessions the frames of a sequence of effects were sent to
Recipients(es) == {es[i].to : i \in 1..Len(es)}
\* es is USER_STATUS(u, online), sent once to each session of the set ts
StatusToEach(es, u, ts) ==
  /\ \A i \in 1..Len(es) :
       es[i] = SendEv(es[i].to, createUserStatusMessage(u, TRUE))
  /\ Recipients(es) = ts /\ Len(es) = Cardinality(ts)
\* the handler on s has sent no frame so far
NothingSent(s) == \A i \in 1..Len(trace[s]) : trace[s][i].ev # "send"
\* the step is the handler of s leaving label l
Leaves(s, l) == pc[s] = l /\ pc'[s] # l

Dispatched(s, t) ==
  pc[s] \in {"recv", "next"} /\ trace'[s] # trace[s] /\ frame'[s].type = t
\* the username the session of s had when its current frame was dispatched
Caller(s) == trace[s][1].sender
\* es is USER_STATUS(u, offline), sent once to each session of the set ts
OfflineToEach(es, u, ts) ==
  /\ \A i \in 1..Len(es) :
       es[i] = SendEv(es[i].to, createUserStatusMessage(u, FALSE))
  /\ Recipients(es) = ts /\ Len(es) = Cardinality(ts)

\* C25: LOGOUT on a session Authenticated as u sends USER_STATUS(u, offline)
\* to every other authenticated session and not to the caller, removes u
\* from the username index, returns the session to Anonymous and replies to
\* the caller with the OK "Logged out successfully"; LOGOUT on an Anonymous
\* session is answered with one ERROR and changes nothing.
C25_Logout ==
  [][\A s \in Socks :
       /\ Dispatched(s, "LOGOUT") /\ ~authenticated[s] =>
            /\ Len(trace'[s]) = 2 /\ trace'[s][2].ev = "send"
            /\ trace'[s][2].to = s /\ trace'[s][2].type = "ERROR"
            /\ UNCHANGED <<hubVars, sessVars, dbVars>>
       /\ Leaves(s, "logout_bcast") =>
            OfflineToEach(NewEffects(s), Caller(s),
                          {t \in clients \ {s} : authenticated[t]})
       /\ Leaves(s, "logout_unreg") =>
            Caller(s) # "" /\ ~isUserOnline(Caller(s))'
       /\ Leaves(s, "logout_clear") =>
            /\ ~authenticated'[s] /\ username'[s] = ""
            /\ NewEffects(s) =
                 <<SendEv(s, createOkResponse("Logged out successfully"))>>
    ]_vars


\* the read of s returns EOF or an error
RecvFails(s) == pc[s] = "recv" /\ pc'[s] \in {"x_bcast", "x_remove"}

\* C26: when the read of a connection returns EOF or an error, the worker
\* goes on to remove the session from the socket index; if the session was
\* authenticated as u, it first sends USER_STATUS(u, offline) to every other
\* authenticated session and removes u from the username index, leaving the
\* entry of every other username untouched.
C26_Disconnect ==
  [][\A s \in Socks :
       /\ RecvFails(s) =>
            /\ lu'[s] = username[s]
            /\ pc'[s] = "x_bcast" <=> authenticated[s]
       /\ Leaves(s, "x_bcast") =>
            /\ OfflineToEach(NewEffects(s), lu[s],
                             {t \in clients \ {s} : authenticated[t]})
            /\ pc'[s] = "x_unreg"
       /\ Leaves(s, "x_unreg") =>
            /\ ~isUserOnline(lu[s])'
            /\ \A n \in NameInputs \ {lu[s]} :
                 userToSocket'[n] = userToSocket[n]
            /\ pc'[s] = "x_remove"
       /\ Leaves(s, "x_remove") => s \notin clients' /\ pc'[s] = "none"
    ]_vars


\* exactly one frame, an ERROR, written to s itself
JustError(es, s) ==
  Len(es) = 1 /\ es[1].ev = "send" /\ es[1].to = s /\ es[1].type = "ERROR"
\* the step touches neither the account store nor a session nor an index
NothingChanges == UNCHANGED <<hubVars, sessVars, dbVars>>

\* C27 as stated: every admin-only command from a session that is Anonymous,
\* or whose user's stored role is not admin when the handler reads it, is
\* answered with ERROR and changes neither the account store nor any session
\* or hub index.
C27_AdminOnly ==
  [][\A s \in Socks :
       /\ (\E t \in AdminTypes \cup ListTypes : Dispatched(s, t))
          /\ ~authenticated[s] =>
            JustError(Tail(trace'[s]), s) /\ pc'[s] = "next" /\ NothingChanges
       /\ Leaves(s, "a_role") /\ ~isAdmin(Caller(s)) =>
            JustError(NewEffects(s), s) /\ pc'[s] = "next" /\ NothingChanges
    ]_vars

\* C27: every admin-only command from a session that is Anonymous, or whose
\* user's stored role is not admin when the handler reads it, ends the
\* handler at that test, changes neither the account store nor any session
\* or hub index, and is answered with exactly one ERROR if the session is
\* active when the reply is written (on a session marked inactive the reply
\* is dropped); a user demoted while logged in is refused in the same way.
C27_AdminOnlyWhileActive ==
  [][\A s \in Socks :
       /\ (\E t \in AdminTypes \cup ListTypes : Dispatched(s, t))
          /\ ~authenticated[s] =>
            /\ IF active[s] THEN JustError(Tail(trace'[s]), s)
               ELSE Tail(trace'[s]) = <<>>
            /\ pc'[s] = "next" /\ NothingChanges
       /\ Leaves(s, "a_role") /\ ~isAdmin(Caller(s)) =>
            /\ IF active[s] THEN JustError(NewEffects(s), s)
               ELSE NewEffects(s) = <<>>
            /\ pc'[s] = "next" /\ NothingChanges
    ]_vars

\* C27 witness: root's DEMOTE_USER alice was answered OK while alice was
\* logged in, and the UNMUTE_USER that alice, still logged in, sent
\* afterwards has been refused.
C27_Witness ==
  /\ AnsweredOk(1, "DEMOTE_USER", "alice")
  /\ pc[2] = "next" /\ frame[2] = Admin("UNMUTE_USER", "alice")
  /\ Caller(2) = "alice" /\ authenticated[2]
  /\ Effects(2) = <<ErrorTo(2, "Admin privileges required")>>


\* the commands that refuse the caller as their target
SelfTypes == {"KICK_USER", "BAN_USER", "MUTE_USER", "DEMOTE_USER"}
\* the step is one of the handler that runs on s
InHandler(s) ==
  /\ pc[s] \notin {"recv", "next", "none", "x_bcast", "x_unreg", "x_remove"}
  /\ pc'[s] # pc[s]
\* the frame in the handler of s names the user who sent it
SelfTargeted(s) ==
  frame[s].type \in SelfTypes /\ frame[s].receiver = Caller(s)

\* C28 as stated: KICK, BAN, MUTE and DEMOTE that name the caller as target,
\* PROMOTE of a user who is an admin when the handler tests it and DEMOTE of
\* a user who is not an admin then, are each answered with one ERROR and
\* leave the account store, the hub indexes and every session unchanged.
C28_Refusals ==
  [][\A s \in Socks :
       /\ InHandler(s) /\ SelfTargeted(s) =>
            /\ NothingChanges
            /\ pc'[s] = "next" => JustError(Tail(trace'[s]), s)
       /\ \/ Leaves(s, "pr_target") /\ isAdmin(frame[s].receiver)
          \/ Leaves(s, "de_target") /\ ~isAdmin(frame[s].receiver)
          => JustError(NewEffects(s), s) /\ pc'[s] = "next" /\ NothingChanges
    ]_vars


\* C29: for an accepted MSG_PRIVATE from a session authenticated as u to an
\* online receiver r other than u, the session of r and then the session of
\* u are each sent one MSG_PRIVATE frame with sender u and receiver r and no
\* other session is sent anything; a frame with empty receiver or with
\* receiver u is answered with one ERROR and delivered to nobody.
C29_PrivateDelivery ==
  [][\A s \in Socks :
       LET u == Caller(s)
           r == frame[s].receiver
           m == createPrivateMessage(u, r, frame[s].content)
       IN /\ Leaves(s, "p_send") /\ isUserOnline(r) =>
               /\ username[userToSocket[r]] = r
               /\ NewEffects(s) = <<SendEv(userToSocket[r], m), SendEv(s, m)>>
               /\ pc'[s] = "next"
          /\ Leaves(s, "p_muted") /\ (r = "" \/ r = u) =>
               JustError(NewEffects(s), s) /\ pc'[s] = "next"
    ]_vars


\* the chat frame handled on s violates a precondition that can be read off
\* the frame and the identity it was dispatched under: sender not logged in
\* or muted, empty content, receiver missing or equal to the sender
ViolatesPrecondition(s) ==
  /\ frame[s].type \in {"MSG_GLOBAL", "MSG_PRIVATE"}
  /\ \/ Caller(s) = "" \/ trace[s][1].type = "muted"
     \/ frame[s].content = ""
     \/ frame[s].type = "MSG_PRIVATE"
        /\ frame[s].receiver \in {"", Caller(s)}

\* C30: every MSG_GLOBAL or MSG_PRIVATE frame that violates a precondition
\* of its handler has, when the handler returns, been answered with exactly
\* one ERROR frame to the originator and with nothing else.
C30_ViolationsAnswered ==
  \A s \in Socks :
    pc[s] = "next" /\ ViolatesPrecondition(s) => OneError(s)


\* the step hands one of the frames no handler accepts to the handler of s
BadDispatched(s) ==
  pc[s] \in {"recv", "next"} /\ trace'[s] # trace[s] /\ frame'[s] \in BadFrames
\* the handler has returned into processData, which takes the next frame
Returned(s) == pc'[s] = "next"

\* C31 as stated: a frame with an unknown or server-to-client type code, an
\* unparsable payload, a missing field or malformed credentials leaves every
\* session's authentication state and both indexes as they are, is answered
\* with one ERROR frame to its session and with nothing else, and the
\* session goes on to its next frame.
C31_BadFrameAnswered ==
  [][\A s \in Socks :
       BadDispatched(s) =>
         /\ JustError(Tail(trace'[s]), s)
         /\ Returned(s) /\ NothingChanges
    ]_vars

\* C31: such a frame leaves every session's authentication state and both
\* indexes as they are and the session goes on to its next frame; it is
\* answered with exactly one ERROR frame if the session is active, and with
\* nothing if the session has been marked inactive, and no other session is
\* sent anything.
C31_BadFrameAnsweredWhileActive ==
  [][\A s \in Socks :
       BadDispatched(s) =>
         /\ IF active[s] THEN JustError(Tail(trace'[s]), s)
            ELSE Tail(trace'[s]) = <<>>
         /\ Returned(s) /\ NothingChanges
    ]_vars

\* C31 witness: alice, logged in, has sent bytes that are no JSON text: the
\* session is still authenticated as alice, active and in both indexes, it
\* has been sent the one ERROR, and processData goes on to the next frame.
C31_Witness ==
  \E s \in Socks :
    /\ pc[s] = "next" /\ frame[s] = AsFrame(deserialize(NotJson))
    /\ s \in clients /\ active[s]
    /\ authenticated[s] /\ username[s] = "alice" /\ userToSocket["alice"] = s
    /\ Effects(s) = <<ErrorTo(s, "Unknown command")>>


\* C36: after stop() has returned on a running server no session is left in
\* the socket index, no username is left in the username index, and no
\* session is active.
C36_StoppedServerIsEmpty ==
  stopPc = "done" =>
    /\ ~running /\ clients = {}
    /\ \A s \in Socks : ~active[s]
    /\ \A u \in NameInputs : userToSocket[u] = NoSock


\* the step is one in which the worker of s reads or writes its session:
\* any step of the read loop or of a handler, the exit path's getUsername()
\* included, but not the three steps after it, which use the descriptor only
TouchesSession(s) ==
  /\ pc[s] \notin {"none", "x_bcast", "x_unreg", "x_remove"}
  /\ pc'[s] # pc[s] \/ trace'[s] # trace[s]

\* C37: no worker reads or writes its ClientSession after the session has
\* been erased from the socket index, by removeClient or by stop().
C37_NoUseAfterDestroy ==
  [][\A s \in Socks : TouchesSession(s) => s \in clients]_vars


\* C38: once some user has role admin, DEMOTE commands never leave the
\* account store without an admin, two admins demoting each other at the
\* same time included.
C38_SomeAdminRemains ==
  \E u \in DOMAIN users : users[u].role = 1


\* C40: no frames from client sessions, REGISTER and LOGIN with a chosen
\* username included, make the server deliver a MSG_GLOBAL or MSG_PRIVATE
\* frame whose sender is "[SERVER]"; only the operator's hook does.
C40_OperatorNameNotForged ==
  \A s \in Socks : \A i \in 1..Len(trace[s]) :
    trace[s][i].ev = "send" /\ trace[s][i].type \in {"MSG_GLOBAL", "MSG_PRIVATE"}
      => trace[s][i].sender # ServerName


\* C35: the socket index never holds more than maxClients sessions; when the
\* acceptor finds maxClients sessions in it, the accepted connection is
\* closed: no session is created for it and no worker is started.
C35_AtMostMaxClients ==
  /\ [](getClientCount <= maxClients)
  /\ [][acceptPc = "check" /\ getClientCount >= maxClients
          /\ acceptPc' # "check"
        => /\ acceptFd' = NoSock /\ acceptPc' = "accept"
           /\ clients' = clients /\ pc' = pc /\ active' = active]_vars

C35_Witness ==
  /\ acceptPc = "check" /\ acceptFd = MaxSock + 1
  /\ getClientCount = maxClients
  /\ \A s \in Socks : pc[s] = "recv"


\* the frame whose send() a step puts on the connection of r
Put(r) == outbound'[r][Len(outbound'[r])]
Puts(r) == outbound'[r] # outbound[r]

\* C32: a broadcast frame (MSG_GLOBAL, USER_STATUS) is written only to
\* sessions of the socket index that are authenticated and are not the
\* excluded socket: a session that is not logged in never receives one.
C32_BroadcastOnlyToAuthenticated ==
  [][\A r \in Socks :
       Puts(r) /\ Put(r).msg.type \in {"MSG_GLOBAL", "USER_STATUS"}
         => /\ r \in clients /\ authenticated[r]
            /\ r # FanExclude(Put(r).from)]_vars


\* the complete broadcast frames a connection has been sent, in order
Received(r) ==
  SelectSeq(outbound[r],
            LAMBDA c : c.part = 2
                       /\ c.msg.type \in {"MSG_GLOBAL", "USER_STATUS"})
Once(q, m) == Cardinality({i \in 1..Len(q) : q[i].msg = m}) = 1
At(q, m) == CHOOSE i \in 1..Len(q) : q[i].msg = m

\* C39: two sessions that both receive the same two broadcast frames, from
\* one sender or from two, receive them in the same order.
C39_BroadcastsTotallyOrdered ==
  \A r1 \in Socks, r2 \in Socks :
    \A i \in 1..Len(Received(r1)), j \in 1..Len(Received(r1)) :
      LET x == Received(r1)[i].msg
          y == Received(r1)[j].msg
      IN i < j /\ x # y
         /\ Once(Received(r1), x) /\ Once(Received(r1), y)
         /\ Once(Received(r2), x) /\ Once(Received(r2), y)
         => At(Received(r2), x) < At(Received(r2), y)

C39_Witness ==
  \E r1 \in Socks, r2 \in Socks :
    /\ r1 # r2
    /\ Len(Received(r1)) = 2 /\ Received(r2) = Received(r1)
    /\ Received(r1)[1].from # Received(r1)[2].from
    /\ Received(r1)[1].msg.type = "MSG_GLOBAL"
    /\ Received(r1)[2].msg.type = "MSG_GLOBAL"


RECURSIVE IsSubseq(_, _)
IsSubseq(a, b) ==
  \/ a = <<>>
  \/ /\ b # <<>>
     /\ \/ Head(a) = Head(b) /\ IsSubseq(Tail(a), Tail(b))
        \/ IsSubseq(a, Tail(b))
\* the texts of the MSG_GLOBAL frames of user u that connection r has been
\* sent, and those the handlers of u have logged, both in order
TextsSent(r, u) ==
  LET q == SelectSeq(outbound[r],
                     LAMBDA c : c.part = 2 /\ c.msg.type = "MSG_GLOBAL"
                                /\ c.msg.sender = u)
  IN [i \in 1..Len(q) |-> q[i].msg.content]
TextsHandled(u) ==
  LET q == SelectSeq(messages, LAMBDA m : m.kind = "global" /\ m.sender = u)
  IN [i \in 1..Len(q) |-> q[i].content]

\* C34: the two parts of a frame are next to each other on the connection,
\* whichever threads write to it, and the frames of one sender reach a
\* recipient in the order in which the sender's worker handled them.
C34_FramesWholeAndInOrder ==
  \A r \in Socks :
    /\ \A i \in 1..Len(outbound[r]) :
         IF outbound[r][i].part = 1
         THEN i < Len(outbound[r])
                => outbound[r][i + 1] = [outbound[r][i] EXCEPT !.part = 2]
         ELSE i > 1 /\ outbound[r][i - 1] = [outbound[r][i] EXCEPT !.part = 1]
    /\ \A u \in Names : IsSubseq(TextsSent(r, u), TextsHandled(u))

C34_Witness ==
  \E s \in Socks, r \in Socks :
    /\ s # r
    /\ pc[r] = "reply_rest" /\ holder[SendMutex(r)] = r
    /\ pc[s] = "f_first" /\ lfd[s] = r
    /\ Len(outbound[r]) = 1


\* the place of a mutex in the order clients, users, send, state, store
Rank(l) ==
  CASE l[1] = "clients" -> 1 [] l[1] = "users" -> 2 [] l[1] = "send" -> 3
    [] l[1] = "state" -> 4 [] l[1] = "store" -> 5
Wants(t, l) == path[t] # <<>> /\ Head(path[t]) = Acq(l)
CanStep(t) ==
  /\ path[t] # <<>>
  /\ Head(path[t])[1] = "acq" => holder[Head(path[t])[2]] = NoThread

\* C33: a thread that asks for a mutex holds none that comes later in the
\* order clients, users, send, state, store; and the threads that are inside
\* a locked stretch are never all waiting: there is no deadlock.
C33_LockOrderNoDeadlock ==
  /\ \A t \in Threads, l \in Locks, h \in Locks :
       Wants(t, l) /\ holder[h] = t => Rank(h) <= Rank(l)
  /\ (\E t \in Threads : path[t] # <<>>) => \E t \in Threads : CanStep(t)

C33_Witness ==
  \E t \in Threads, r \in Socks :
    /\ t # r
    /\ holder[ClientsMutex] = t
    /\ Wants(t, SendMutex(r)) /\ holder[SendMutex(r)] = r
    /\ \E u \in Threads \ {t, r} : holder[UsersMutex] = u

====
